---- MODULE Spec2Model ----
(***************************************************************************)
(* Model of the TLS 1.3 handshake engine of                                *)
(* src/third_party/boringssl/src/ssl/tls13_both.cc: the handshake driver   *)
(* tls13_handshake, the certificate / CertificateVerify / Finished         *)
(* handlers and the post-handshake KeyUpdate dispatch.                     *)
(*                                                                         *)
(* The module holds several specifications over one set of variables:     *)
(*   SpecKU    post-handshake dispatch (tls13_post_handshake)              *)
(*   SpecDrv   the handshake driver (tls13_handshake)                      *)
(*   SpecRecv, SpecSend, SpecCodec, SpecInput   the handshake message      *)
(*             handlers and builders, one call per step                    *)
(* Each specification leaves the variables of the others unchanged.       *)
(***************************************************************************)
EXTENDS Integers, Sequences, FiniteSets, TLC

(***************************************************************************)
(* State.                                                                  *)
(***************************************************************************)
\* The connection after the handshake (ssl->s3), as the post-handshake
\* dispatch sees it.
VARIABLES
  server,              \* ssl->server
  key_update_count,    \* ssl->s3->key_update_count
  key_update_pending,  \* ssl->s3->key_update_pending
  read_key_gen,        \* number of read-direction (evp_aead_open) rotations
  write_key_gen,       \* number of write-direction (evp_aead_seal) rotations
  flight,              \* handshake messages queued and not yet flushed
  acks_queued,         \* KeyUpdate acknowledgements queued so far
  ph_call,             \* the last post-handshake event: its inputs and outcome
  ku_run,              \* KeyUpdate messages received since the last other message
  ku_run_rotated,      \* those of them that caused a key rotation
  n_msgs,              \* post-handshake messages dispatched so far
  n_other,             \* of which messages that are not KeyUpdates
  n_flushes            \* flushes so far

kuVars == <<server, key_update_count, key_update_pending, read_key_gen,
            write_key_gen, flight, acks_queued, ph_call, ku_run,
            ku_run_rotated, n_msgs, n_other, n_flushes>>

\* The handshake (SSL_HANDSHAKE) and the driver's position in it.
VARIABLES
  hs_wait,           \* hs->wait
  drv_pc,            \* where the driver is: outside a call, or inside the loop
  drv_ret,           \* the value the last driver call returned
  out_early_return,  \* *out_early_return of the last or running call
  rwstate,           \* ssl->rwstate
  can_early_read,    \* ssl->s3->hs->can_early_read
  can_early_write,   \* hs->can_early_write
  put_errors,        \* SSL_R_SSL_HANDSHAKE_FAILURE errors the driver queued
  script,            \* the results the stage function returns, call by call
  script_idx,        \* stage-function invocations so far
  trace,             \* the transport steps that succeeded and the stage calls
  n_not_ready,       \* not-ready answers so far
  n_entries          \* driver entries so far

drvVars == <<hs_wait, drv_pc, drv_ret, out_early_return, rwstate,
             can_early_read, can_early_write, put_errors, script, script_idx,
             trace, n_not_ready, n_entries>>

\* The handshake message handlers: configuration, handshake and session.
VARIABLES
  ssl_config,   \* the settings of ssl and ssl->cert the handlers read
  hs,           \* the fields of SSL_HANDSHAKE the handlers read and write
  new_session,  \* hs->new_session
  op_call,      \* the last handler call: its inputs and outcome
  recv_phase,   \* how many of the peer's handshake messages were handled
  send_phase,   \* how many of the local handshake messages were built
  peer          \* the endpoint at the other end that handles the local flight

opsVars == <<ssl_config, hs, new_session, op_call, recv_phase, send_phase,
             peer>>

(***************************************************************************)
(* Byte strings (CBS) and the parsing primitives the handlers use.         *)
(***************************************************************************)
Byte == 0..255

Drop(s, n) == SubSeq(s, n + 1, Len(s))
Take(s, n) == SubSeq(s, 1, n)

\* CBS_len
CBS_len(cbs) == Len(cbs)

\* CBS_get_u8: [ok, val, rest]
CBS_get_u8(cbs) ==
  IF Len(cbs) < 1
    THEN [ok |-> FALSE, val |-> 0, rest |-> cbs]
    ELSE [ok |-> TRUE, val |-> cbs[1], rest |-> Drop(cbs, 1)]

\* CBS_get_u16: [ok, val, rest], big-endian
CBS_get_u16(cbs) ==
  IF Len(cbs) < 2
    THEN [ok |-> FALSE, val |-> 0, rest |-> cbs]
    ELSE [ok |-> TRUE, val |-> cbs[1] * 256 + cbs[2], rest |-> Drop(cbs, 2)]

\* CBS_get_u24: [ok, val, rest], big-endian
CBS_get_u24(cbs) ==
  IF Len(cbs) < 3
    THEN [ok |-> FALSE, val |-> 0, rest |-> cbs]
    ELSE [ok |-> TRUE, val |-> cbs[1] * 65536 + cbs[2] * 256 + cbs[3],
          rest |-> Drop(cbs, 3)]

\* The body of a length-prefixed element, given the parsed length prefix:
\* [ok, val (the body), rest]
CBS_get_prefixed(len) ==
  IF ~len.ok \/ Len(len.rest) < len.val
    THEN [ok |-> FALSE, val |-> <<>>, rest |-> len.rest]
    ELSE [ok |-> TRUE, val |-> Take(len.rest, len.val),
          rest |-> Drop(len.rest, len.val)]

CBS_get_u8_length_prefixed(cbs) == CBS_get_prefixed(CBS_get_u8(cbs))
CBS_get_u16_length_prefixed(cbs) == CBS_get_prefixed(CBS_get_u16(cbs))
CBS_get_u24_length_prefixed(cbs) == CBS_get_prefixed(CBS_get_u24(cbs))

\* CBB_add_u8, CBB_add_u16, CBB_add_u24: big-endian encodings
U8(n) == <<n % 256>>
U16(n) == <<(n \div 256) % 256, n % 256>>
U24(n) == <<(n \div 65536) % 256, (n \div 256) % 256, n % 256>>

\* CBB_add_u8/u16/u24_length_prefixed with the child's contents
CBB_u8_length_prefixed(body) == U8(Len(body)) \o body
CBB_u16_length_prefixed(body) == U16(Len(body)) \o body
CBB_u24_length_prefixed(body) == U24(Len(body)) \o body

\* Optional values (a pointer that may be NULL): <<>> or <<value>>.
None == <<>>
Some(v) == <<v>>
IsNull(p) == p = <<>>

(***************************************************************************)
(* Alerts and return codes.                                                *)
(***************************************************************************)
SSL_AD_UNEXPECTED_MESSAGE == "unexpected_message"
SSL_AD_DECODE_ERROR == "decode_error"
SSL_AD_ILLEGAL_PARAMETER == "illegal_parameter"
SSL_AD_INTERNAL_ERROR == "internal_error"
SSL_AD_UNSUPPORTED_EXTENSION == "unsupported_extension"
SSL_AD_CERTIFICATE_REQUIRED == "certificate_required"
SSL_AD_DECRYPT_ERROR == "decrypt_error"

(***************************************************************************)
(* Post-handshake dispatch: tls13_post_handshake, tls13_receive_key_update *)
(***************************************************************************)
\* static const uint8_t kMaxKeyUpdates = 32;
kMaxKeyUpdates == 32

\* key_update_count is a uint8_t
U8Modulus == 256

SSL_KEY_UPDATE_NOT_REQUESTED == 0
SSL_KEY_UPDATE_REQUESTED == 1

SSL3_MT_KEY_UPDATE == "key_update"
SSL3_MT_NEW_SESSION_TICKET == "new_session_ticket"
SSL3_MT_FINISHED == "finished"

\* Bounds of the post-handshake model: messages received on one connection,
\* of which messages that are not KeyUpdates, and flushes of the flight.
MaxMsgs == 34
MaxOtherMsgs == 1
MaxFlushes == 1

\* The part of ssl->s3 the key update handler reads and writes.
S3State == [key_update_count |-> key_update_count,
            key_update_pending |-> key_update_pending,
            read_key_gen |-> read_key_gen,
            write_key_gen |-> write_key_gen,
            flight |-> flight,
            acks_queued |-> acks_queued]

\* What the collaborators of one call answer: all succeed, or the named one
\* fails (one call consults them in sequence and stops at the first failure).
\*   rotate_open, rotate_seal: tls13_rotate_traffic_key per direction
\*   init_message, add_message: building and queueing the acknowledgement
\*   ticket, ticket_alert: tls13_process_new_session_ticket fails, without or
\*   with an alert of its own
KUEnv == {"ok", "rotate_open", "init_message", "add_message", "rotate_seal",
          "ticket", "ticket_alert"}

\* Mutant of KeyUpdateBodyOk: the trailing-bytes test is missing.
KeyUpdateBodyOk_NoLengthCheck(body) ==
  LET r == CBS_get_u8(body) IN
    /\ r.ok
    /\ r.val \in {SSL_KEY_UPDATE_NOT_REQUESTED, SSL_KEY_UPDATE_REQUESTED}

\* Lines 592-595: the body is one byte holding one of the two defined codes.
KeyUpdateBodyOk(body) ==
  LET r == CBS_get_u8(body) IN
    /\ r.ok
    /\ CBS_len(r.rest) = 0
    /\ r.val \in {SSL_KEY_UPDATE_NOT_REQUESTED, SSL_KEY_UPDATE_REQUESTED}

\* Mutant of ShouldAcknowledge: the pending flag is not consulted.
ShouldAcknowledge_IgnorePending(request, pending) ==
  request = SSL_KEY_UPDATE_REQUESTED

\* Lines 606-607: the condition under which the KeyUpdate is acknowledged.
ShouldAcknowledge(request, pending) ==
  request = SSL_KEY_UPDATE_REQUESTED /\ ~pending

\* Mutant of KeyUpdateAck: the acknowledgement asks for one in return.
KeyUpdateAck_Requested == [type |-> SSL3_MT_KEY_UPDATE,
                           body |-> <<SSL_KEY_UPDATE_REQUESTED>>]

\* The acknowledgement message of lines 610-611.
KeyUpdateAck == [type |-> SSL3_MT_KEY_UPDATE,
                 body |-> <<SSL_KEY_UPDATE_NOT_REQUESTED>>]

\* tls13_receive_key_update: the state after the call, its return value and
\* the alerts it sent.
tls13_receive_key_update(s, body, env) ==
  IF ~KeyUpdateBodyOk(body)
    THEN [s |-> s, ret |-> 0, alerts |-> <<SSL_AD_DECODE_ERROR>>]
  ELSE IF env = "rotate_open"
    THEN [s |-> s, ret |-> 0, alerts |-> <<>>]
  ELSE
    LET s1 == [s EXCEPT !.read_key_gen = @ + 1]
        request == CBS_get_u8(body).val
    IN
    IF ShouldAcknowledge(request, s1.key_update_pending)
      THEN
        IF env \in {"init_message", "add_message"}
          THEN [s |-> s1, ret |-> 0, alerts |-> <<>>]
        ELSE
          LET s2 == [s1 EXCEPT !.flight = Append(@, KeyUpdateAck),
                               !.acks_queued = @ + 1]
          IN
          IF env = "rotate_seal"
            THEN [s |-> s2, ret |-> 0, alerts |-> <<>>]
            ELSE [s |-> [s2 EXCEPT !.write_key_gen = @ + 1,
                                   !.key_update_pending = TRUE],
                  ret |-> 1, alerts |-> <<>>]
      ELSE [s |-> s1, ret |-> 1, alerts |-> <<>>]

\* Mutant of TooManyKeyUpdates: the ceiling is off by one.
TooManyKeyUpdates_OffByOne(count) == count > kMaxKeyUpdates + 1

\* Line 630: the ceiling test on the incremented counter.
TooManyKeyUpdates(count) == count > kMaxKeyUpdates

\* Mutant of ResetKeyUpdateCount: the counter is left as it was.
ResetKeyUpdateCount_Keep(s) == s

\* ssl->s3->key_update_count = 0
ResetKeyUpdateCount(s) == [s EXCEPT !.key_update_count = 0]

\* tls13_process_new_session_ticket, an external collaborator: it succeeds, or
\* fails with or without an alert of its own.
TicketHandler(env) ==
  [ret |-> IF env \in {"ticket", "ticket_alert"} THEN 0 ELSE 1,
   alerts |-> IF env = "ticket_alert" THEN <<SSL_AD_DECODE_ERROR>> ELSE <<>>]

\* tls13_post_handshake; ticket is what tls13_process_new_session_ticket
\* returned when the call was handed to it, and None when it was not called.
tls13_post_handshake(s, is_server, message_type, body, env) ==
  IF message_type = SSL3_MT_KEY_UPDATE
    THEN
      LET s1 == [s EXCEPT !.key_update_count = (@ + 1) % U8Modulus] IN
      IF TooManyKeyUpdates(s1.key_update_count)
        THEN [s |-> s1, ret |-> 0, alerts |-> <<SSL_AD_UNEXPECTED_MESSAGE>>,
              ticket |-> None]
        ELSE tls13_receive_key_update(s1, body, env) @@ [ticket |-> None]
    ELSE
      LET s1 == ResetKeyUpdateCount(s) IN
      IF message_type = SSL3_MT_NEW_SESSION_TICKET /\ ~is_server
        THEN [s |-> s1, ret |-> TicketHandler(env).ret,
              alerts |-> TicketHandler(env).alerts,
              ticket |-> Some(TicketHandler(env))]
        ELSE [s |-> s1, ret |-> 0, alerts |-> <<SSL_AD_UNEXPECTED_MESSAGE>>,
              ticket |-> None]

\* Message bodies the peer may send: empty, each defined code, undefined
\* codes, and bodies with trailing bytes.
KUBodies == {<<>>, <<0>>, <<1>>, <<2>>, <<1, 0>>}
KUMessageTypes == {SSL3_MT_KEY_UPDATE, SSL3_MT_NEW_SESSION_TICKET, SSL3_MT_FINISHED}

NoCall == [op |-> "none"]

InitKU ==
  /\ server \in BOOLEAN
  /\ key_update_count = 0
  /\ key_update_pending = FALSE
  /\ read_key_gen = 0
  /\ write_key_gen = 0
  /\ flight = <<>>
  /\ acks_queued = 0
  /\ ph_call = NoCall
  /\ ku_run = 0
  /\ ku_run_rotated = 0
  /\ n_msgs = 0
  /\ n_other = 0
  /\ n_flushes = 0

\* A failed dispatch is fatal for the connection: the caller stops reading.
ConnectionFailed == ph_call.op = "post_handshake" /\ ph_call.ret = 0

\* The caller hands one received post-handshake message to
\* tls13_post_handshake.
PostHandshake ==
  /\ UNCHANGED <<drvVars, opsVars>>
  /\ ~ConnectionFailed
  /\ n_msgs < MaxMsgs
  /\ \E message_type \in KUMessageTypes, body \in KUBodies, env \in KUEnv :
       LET r == tls13_post_handshake(S3State, server, message_type, body, env)
           is_ku == message_type = SSL3_MT_KEY_UPDATE
           rotated == \/ r.s.read_key_gen # read_key_gen
                      \/ r.s.write_key_gen # write_key_gen
       IN
       /\ is_ku \/ n_other < MaxOtherMsgs
       /\ key_update_count' = r.s.key_update_count
       /\ key_update_pending' = r.s.key_update_pending
       /\ read_key_gen' = r.s.read_key_gen
       /\ write_key_gen' = r.s.write_key_gen
       /\ flight' = r.s.flight
       /\ acks_queued' = r.s.acks_queued
       /\ ph_call' = [op |-> "post_handshake", message_type |-> message_type,
                      body |-> body, ticket |-> r.ticket,
                      ret |-> r.ret, alerts |-> r.alerts,
                      acked |-> r.s.acks_queued # acks_queued]
       /\ ku_run' = IF is_ku THEN ku_run + 1 ELSE 0
       /\ ku_run_rotated' =
            IF is_ku THEN ku_run_rotated + (IF rotated THEN 1 ELSE 0) ELSE 0
       /\ n_other' = IF is_ku THEN n_other ELSE n_other + 1
  /\ n_msgs' = n_msgs + 1
  /\ UNCHANGED <<server, n_flushes>>

\* The transport writes the queued flight to the wire; this is the event that
\* clears the pending-acknowledgement flag.
FlushFlight ==
  /\ UNCHANGED <<drvVars, opsVars>>
  /\ ~ConnectionFailed
  /\ n_flushes < MaxFlushes
  /\ flight' = <<>>
  /\ key_update_pending' = FALSE
  /\ ph_call' = [op |-> "flush"]
  /\ n_flushes' = n_flushes + 1
  /\ UNCHANGED <<server, key_update_count, read_key_gen, write_key_gen,
                 acks_queued, ku_run, ku_run_rotated, n_msgs, n_other>>

\* The post-handshake state of a connection that is still in its handshake.
ParkedKU ==
  /\ key_update_count = 0
  /\ key_update_pending = FALSE
  /\ read_key_gen = 0
  /\ write_key_gen = 0
  /\ flight = <<>>
  /\ acks_queued = 0
  /\ ph_call = NoCall
  /\ ku_run = 0
  /\ ku_run_rotated = 0
  /\ n_msgs = 0
  /\ n_other = 0
  /\ n_flushes = 0

(***************************************************************************)
(* The handshake driver: tls13_handshake.                                  *)
(***************************************************************************)
ssl_hs_error == "ssl_hs_error"
ssl_hs_ok == "ssl_hs_ok"
ssl_hs_read_message == "ssl_hs_read_message"
ssl_hs_flush == "ssl_hs_flush"
ssl_hs_flush_and_read_message == "ssl_hs_flush_and_read_message"
ssl_hs_x509_lookup == "ssl_hs_x509_lookup"
ssl_hs_channel_id_lookup == "ssl_hs_channel_id_lookup"
ssl_hs_private_key_operation == "ssl_hs_private_key_operation"
ssl_hs_pending_ticket == "ssl_hs_pending_ticket"
ssl_hs_early_data_rejected == "ssl_hs_early_data_rejected"
ssl_hs_read_end_of_early_data == "ssl_hs_read_end_of_early_data"
ssl_hs_read_change_cipher_spec == "ssl_hs_read_change_cipher_spec"
ssl_hs_certificate_verify == "ssl_hs_certificate_verify"

\* enum ssl_hs_wait_t, as far as the switch of tls13_handshake names it
WaitStates ==
  {ssl_hs_error, ssl_hs_ok, ssl_hs_read_message, ssl_hs_flush,
   ssl_hs_flush_and_read_message, ssl_hs_x509_lookup,
   ssl_hs_channel_id_lookup, ssl_hs_private_key_operation,
   ssl_hs_pending_ticket, ssl_hs_early_data_rejected,
   ssl_hs_read_end_of_early_data, ssl_hs_read_change_cipher_spec,
   ssl_hs_certificate_verify}

\* The wait states of lines 89-112 and the rwstate each one records.
LookupStates ==
  {ssl_hs_x509_lookup, ssl_hs_channel_id_lookup, ssl_hs_private_key_operation,
   ssl_hs_pending_ticket, ssl_hs_certificate_verify}

RwStateOf(wait) ==
  CASE wait = ssl_hs_x509_lookup -> "SSL_X509_LOOKUP"
    [] wait = ssl_hs_channel_id_lookup -> "SSL_CHANNEL_ID_LOOKUP"
    [] wait = ssl_hs_private_key_operation -> "SSL_PRIVATE_KEY_OPERATION"
    [] wait = ssl_hs_pending_ticket -> "SSL_PENDING_TICKET"
    [] wait = ssl_hs_certificate_verify -> "SSL_CERTIFICATE_VERIFY"

\* Bounds of the driver model: stage-function results of one handshake,
\* not-ready answers of the transport, and entries of the driver.
MaxStages == 3
MaxNotReady == 2
MaxEntries == 5

\* What the transport methods (flush_flight, ssl_get_message,
\* read_change_cipher_spec) return: 1 when ready, 0 or -1 otherwise.
TransportRets == {1, 0, -1}

\* The scripts of stage results: the last result of a handshake is Ok or Error.
Scripts ==
  {sc \in [1..MaxStages -> WaitStates] : sc[MaxStages] \in {ssl_hs_ok, ssl_hs_error}}

InitDrv ==
  /\ hs_wait = ssl_hs_ok
  /\ drv_pc = "idle"
  /\ drv_ret = "none"
  /\ out_early_return = 0
  /\ rwstate = "SSL_NOTHING"
  /\ can_early_read \in BOOLEAN
  /\ can_early_write = TRUE
  /\ put_errors = 0
  /\ script \in Scripts
  /\ script_idx = 0
  /\ trace = <<>>
  /\ n_not_ready = 0
  /\ n_entries = 0

\* The caller enters tls13_handshake (its out_early_return cleared).
DrvEnter ==
  /\ UNCHANGED <<kuVars, opsVars>>
  /\ drv_pc = "idle"
  /\ n_entries < MaxEntries
  /\ script_idx < MaxStages \/ hs_wait = ssl_hs_error
  /\ drv_pc' = "resolve"
  /\ out_early_return' = 0
  /\ n_entries' = n_entries + 1
  /\ UNCHANGED <<hs_wait, drv_ret, rwstate, can_early_read, can_early_write,
                 put_errors, script, script_idx, trace, n_not_ready>>

\* return ret;
DrvReturn(ret) ==
  /\ drv_ret' = ret
  /\ drv_pc' = "idle"

\* A transport answer: ready, or one of the bounded not-ready answers.
TransportAnswer(ret) ==
  /\ ret \in TransportRets
  /\ IF ret <= 0
       THEN n_not_ready < MaxNotReady /\ n_not_ready' = n_not_ready + 1
       ELSE n_not_ready' = n_not_ready

\* Mutant of NotReady: only a negative answer counts as not ready.
NotReady_OnlyNegative(ret) == ret < 0

\* Lines 52, 65, 73: if (ret <= 0) return ret;
NotReady(ret) == ret <= 0

\* Mutant of ResolveError: the error state is resolved like ssl_hs_ok.
ResolveError_LikeOk ==
  /\ UNCHANGED <<kuVars, opsVars>>
  /\ drv_pc = "resolve"
  /\ hs_wait = ssl_hs_error
  /\ script_idx < MaxStages
  /\ drv_pc' = "stage"
  /\ UNCHANGED <<hs_wait, drv_ret, out_early_return, rwstate, can_early_read,
                 can_early_write, put_errors, script, script_idx, trace,
                 n_not_ready, n_entries>>

\* Lines 45-47: case ssl_hs_error
ResolveError ==
  /\ UNCHANGED <<kuVars, opsVars>>
  /\ drv_pc = "resolve"
  /\ hs_wait = ssl_hs_error
  /\ put_errors' = put_errors + 1
  /\ DrvReturn(-1)
  /\ UNCHANGED <<hs_wait, out_early_return, rwstate, can_early_read,
                 can_early_write, script, script_idx, trace, n_not_ready,
                 n_entries>>

\* Mutant of WaitAfterFlush: the wait state is not advanced after the flush.
WaitAfterFlush_NotAdvanced == ssl_hs_flush_and_read_message

\* Line 59: after the flush of ssl_hs_flush_and_read_message
WaitAfterFlush == ssl_hs_read_message

\* Lines 49-61: case ssl_hs_flush, case ssl_hs_flush_and_read_message
ResolveFlush ==
  /\ UNCHANGED <<kuVars, opsVars>>
  /\ drv_pc = "resolve"
  /\ hs_wait \in {ssl_hs_flush, ssl_hs_flush_and_read_message}
  /\ \E ret \in TransportRets :
       /\ TransportAnswer(ret)
       /\ IF NotReady(ret)
            THEN /\ DrvReturn(ret)
                 /\ UNCHANGED <<hs_wait, trace>>
            ELSE IF hs_wait # ssl_hs_flush_and_read_message
              THEN /\ drv_pc' = "stage"
                   /\ trace' = Append(trace, "flush_flight")
                   /\ UNCHANGED <<hs_wait, drv_ret>>
              ELSE /\ drv_pc' = "get_message"
                   /\ trace' = trace \o <<"flush_flight", "expect_flight">>
                   /\ hs_wait' = WaitAfterFlush
                   /\ UNCHANGED drv_ret
  /\ UNCHANGED <<out_early_return, rwstate, can_early_read, can_early_write,
                 put_errors, script, script_idx, n_entries>>

\* Lines 63-69: case ssl_hs_read_message, also reached by falling through
ResolveReadMessage ==
  /\ UNCHANGED <<kuVars, opsVars>>
  /\ \/ drv_pc = "resolve" /\ hs_wait = ssl_hs_read_message
     \/ drv_pc = "get_message"
  /\ \E ret \in TransportRets :
       /\ TransportAnswer(ret)
       /\ IF NotReady(ret)
            THEN /\ DrvReturn(ret)
                 /\ UNCHANGED trace
            ELSE /\ drv_pc' = "stage"
                 /\ trace' = Append(trace, "ssl_get_message")
                 /\ UNCHANGED drv_ret
  /\ UNCHANGED <<hs_wait, out_early_return, rwstate, can_early_read,
                 can_early_write, put_errors, script, script_idx, n_entries>>

\* Lines 71-77: case ssl_hs_read_change_cipher_spec
ResolveReadChangeCipherSpec ==
  /\ UNCHANGED <<kuVars, opsVars>>
  /\ drv_pc = "resolve"
  /\ hs_wait = ssl_hs_read_change_cipher_spec
  /\ \E ret \in TransportRets :
       /\ TransportAnswer(ret)
       /\ IF NotReady(ret)
            THEN /\ DrvReturn(ret)
                 /\ UNCHANGED trace
            ELSE /\ drv_pc' = "stage"
                 /\ trace' = Append(trace, "read_change_cipher_spec")
                 /\ UNCHANGED drv_ret
  /\ UNCHANGED <<hs_wait, out_early_return, rwstate, can_early_read,
                 can_early_write, put_errors, script, script_idx, n_entries>>

\* Mutant of ResolveReadEndOfEarlyData: the early return does not set the
\* signal.
ResolveReadEndOfEarlyData_NoSignal ==
  /\ UNCHANGED <<kuVars, opsVars>>
  /\ drv_pc = "resolve"
  /\ hs_wait = ssl_hs_read_end_of_early_data
  /\ IF can_early_read
       THEN /\ DrvReturn(1)
            /\ UNCHANGED <<hs_wait, out_early_return>>
       ELSE /\ hs_wait' = ssl_hs_ok
            /\ drv_pc' = "stage"
            /\ UNCHANGED <<out_early_return, drv_ret>>
  /\ UNCHANGED <<rwstate, can_early_read, can_early_write, put_errors, script,
                 script_idx, trace, n_not_ready, n_entries>>

\* Lines 79-87: case ssl_hs_read_end_of_early_data
ResolveReadEndOfEarlyData ==
  /\ UNCHANGED <<kuVars, opsVars>>
  /\ drv_pc = "resolve"
  /\ hs_wait = ssl_hs_read_end_of_early_data
  /\ IF can_early_read
       THEN /\ out_early_return' = 1
            /\ DrvReturn(1)
            /\ UNCHANGED hs_wait
       ELSE /\ hs_wait' = ssl_hs_ok
            /\ drv_pc' = "stage"
            /\ UNCHANGED <<out_early_return, drv_ret>>
  /\ UNCHANGED <<rwstate, can_early_read, can_early_write, put_errors, script,
                 script_idx, trace, n_not_ready, n_entries>>

\* Mutant of WaitAfterLookup: the wait state is not reset.
WaitAfterLookup_NotReset == hs_wait

\* Lines 91, 96, 101, 106, 111: the wait state a pending lookup leaves behind
WaitAfterLookup == ssl_hs_ok

\* Lines 89-112: the pending external operations
ResolveLookup ==
  /\ UNCHANGED <<kuVars, opsVars>>
  /\ drv_pc = "resolve"
  /\ hs_wait \in LookupStates
  /\ rwstate' = RwStateOf(hs_wait)
  /\ hs_wait' = WaitAfterLookup
  /\ DrvReturn(-1)
  /\ UNCHANGED <<out_early_return, can_early_read, can_early_write, put_errors,
                 script, script_idx, trace, n_not_ready, n_entries>>

\* Mutant of ResolveEarlyDataRejected: early writes stay enabled.
ResolveEarlyDataRejected_WritesStay ==
  /\ UNCHANGED <<kuVars, opsVars>>
  /\ drv_pc = "resolve"
  /\ hs_wait = ssl_hs_early_data_rejected
  /\ rwstate' = "SSL_EARLY_DATA_REJECTED"
  /\ DrvReturn(-1)
  /\ UNCHANGED <<hs_wait, out_early_return, can_early_read, can_early_write,
                 put_errors, script, script_idx, trace, n_not_ready,
                 n_entries>>

\* Lines 114-118: case ssl_hs_early_data_rejected
ResolveEarlyDataRejected ==
  /\ UNCHANGED <<kuVars, opsVars>>
  /\ drv_pc = "resolve"
  /\ hs_wait = ssl_hs_early_data_rejected
  /\ rwstate' = "SSL_EARLY_DATA_REJECTED"
  /\ can_early_write' = FALSE
  /\ DrvReturn(-1)
  /\ UNCHANGED <<hs_wait, out_early_return, can_early_read, put_errors, script,
                 script_idx, trace, n_not_ready, n_entries>>

\* Lines 120-121: case ssl_hs_ok
ResolveOk ==
  /\ UNCHANGED <<kuVars, opsVars>>
  /\ drv_pc = "resolve"
  /\ hs_wait = ssl_hs_ok
  /\ drv_pc' = "stage"
  /\ UNCHANGED <<hs_wait, drv_ret, out_early_return, rwstate, can_early_read,
                 can_early_write, put_errors, script, script_idx, trace,
                 n_not_ready, n_entries>>

\* Mutant of AfterStage: an Error result loops like any other wait state.
AfterStage_ErrorLoops(wait) ==
  IF wait = ssl_hs_ok THEN "success" ELSE "loop"

\* Lines 126-138: what the driver does with the stage function's result:
\* "fatal" and "success" return, "loop" resolves the new wait state.
AfterStage(wait) ==
  IF wait = ssl_hs_error THEN "fatal"
  ELSE IF wait = ssl_hs_ok THEN "success"
  ELSE "loop"

\* Lines 124-138: hs->wait = hs->do_tls13_handshake(hs), and what follows
RunStage ==
  /\ UNCHANGED <<kuVars, opsVars>>
  /\ drv_pc = "stage"
  /\ script_idx < MaxStages
  /\ LET result == script[script_idx + 1] IN
       /\ hs_wait' = result
       /\ script_idx' = script_idx + 1
       /\ trace' = Append(trace, "do_tls13_handshake")
       /\ CASE AfterStage(result) = "fatal" -> DrvReturn(-1)
            [] AfterStage(result) = "success" -> DrvReturn(1)
            [] OTHER -> drv_pc' = "resolve" /\ UNCHANGED drv_ret
  /\ UNCHANGED <<out_early_return, rwstate, can_early_read, can_early_write,
                 put_errors, script, n_not_ready, n_entries>>

\* The peer's end_of_early_data arrives: early data is no longer accepted.
EarlyDataEnds ==
  /\ UNCHANGED <<kuVars, opsVars>>
  /\ drv_pc = "idle"
  /\ can_early_read
  /\ can_early_read' = FALSE
  /\ UNCHANGED <<hs_wait, drv_pc, drv_ret, out_early_return, rwstate,
                 can_early_write, put_errors, script, script_idx, trace,
                 n_not_ready, n_entries>>

NextDrv ==
  \/ DrvEnter
  \/ ResolveError
  \/ ResolveFlush
  \/ ResolveReadMessage
  \/ ResolveReadChangeCipherSpec
  \/ ResolveReadEndOfEarlyData
  \/ ResolveLookup
  \/ ResolveEarlyDataRejected
  \/ ResolveOk
  \/ RunStage
  \/ EarlyDataEnds

\* The driver state of a connection whose handshake is not being driven.
ParkedDrv ==
  /\ hs_wait = ssl_hs_ok
  /\ drv_pc = "idle"
  /\ drv_ret = "none"
  /\ out_early_return = 0
  /\ rwstate = "SSL_NOTHING"
  /\ can_early_read = FALSE
  /\ can_early_write = TRUE
  /\ put_errors = 0
  /\ script = <<>>
  /\ script_idx = 0
  /\ trace = <<>>
  /\ n_not_ready = 0
  /\ n_entries = 0

(***************************************************************************)
(* The Certificate message: tls13_process_certificate.                     *)
(***************************************************************************)
TLSEXT_TYPE_status_request == 5
TLSEXT_TYPE_certificate_timestamp == 18
TLSEXT_STATUSTYPE_ocsp == 1

\* ssl_cert_parse_pubkey: the certificates of the model carry their key in
\* the first byte; the byte 3 stands for a certificate without a readable key.
ssl_cert_parse_pubkey(certificate) ==
  IF certificate[1] = 3 THEN None ELSE Some(certificate[1])

\* ssl_cert_check_digital_signature_key_usage: the byte 4 stands for a
\* certificate whose key usage excludes digital signatures.
ssl_cert_check_digital_signature_key_usage(certificate) == certificate[1] # 4

\* SHA256 of the leaf certificate, kept symbolic.
SHA256(data) == <<"sha256", data>>

\* ssl_parse_extensions: walks the extension block; `types` are the
\* extension types the caller accepts. The result has one entry per accepted
\* type: None if absent, else its contents.
RECURSIVE ssl_parse_extensions(_, _, _, _)
ssl_parse_extensions(cbs, types, ignore_unknown, found) ==
  IF CBS_len(cbs) = 0 THEN [ok |-> TRUE, alert |-> SSL_AD_DECODE_ERROR, found |-> found]
  ELSE
    LET type == CBS_get_u16(cbs)
        data == CBS_get_u16_length_prefixed(type.rest)
    IN
    IF ~type.ok \/ ~data.ok
      THEN [ok |-> FALSE, alert |-> SSL_AD_DECODE_ERROR, found |-> found]
    ELSE IF type.val \notin types
      THEN IF ignore_unknown
             THEN ssl_parse_extensions(data.rest, types, ignore_unknown, found)
             ELSE [ok |-> FALSE, alert |-> SSL_AD_UNSUPPORTED_EXTENSION,
                   found |-> found]
    ELSE IF ~IsNull(found[type.val])
      THEN [ok |-> FALSE, alert |-> SSL_AD_ILLEGAL_PARAMETER, found |-> found]
    ELSE ssl_parse_extensions(data.rest, types, ignore_unknown,
                              [found EXCEPT ![type.val] = Some(data.val)])

\* ssl_is_sct_list_valid: a non-empty list of non-empty SCTs, nothing after it
RECURSIVE SctsNonEmpty(_)
SctsNonEmpty(sct_list) ==
  IF CBS_len(sct_list) = 0 THEN TRUE
  ELSE LET sct == CBS_get_u16_length_prefixed(sct_list) IN
       sct.ok /\ CBS_len(sct.val) # 0 /\ SctsNonEmpty(sct.rest)

ssl_is_sct_list_valid(contents) ==
  LET sct_list == CBS_get_u16_length_prefixed(contents) IN
    /\ sct_list.ok
    /\ CBS_len(sct_list.rest) = 0
    /\ CBS_len(sct_list.val) # 0
    /\ SctsNonEmpty(sct_list.val)

\* Lines 260-263: the extension types a Certificate entry may carry
CertExtTypes == {TLSEXT_TYPE_status_request, TLSEXT_TYPE_certificate_timestamp}

\* Mutant of ParseCertExtensions: unknown extension types are skipped.
ParseCertExtensions_IgnoreUnknown(extensions) ==
  ssl_parse_extensions(extensions, CertExtTypes, TRUE,
                       [t \in CertExtTypes |-> None])

\* Lines 265-268: ssl_parse_extensions(..., 0 /* reject unknown */)
ParseCertExtensions(extensions) ==
  ssl_parse_extensions(extensions, CertExtTypes, FALSE,
                       [t \in CertExtTypes |-> None])

\* Lines 282-291: the contents of a status_request extension:
\* [ok, val (the OCSP response)]
ParseStatusRequest(status_request) ==
  LET status_type == CBS_get_u8(status_request)
      ocsp_response == CBS_get_u24_length_prefixed(status_type.rest)
  IN
  IF \/ ~status_type.ok
     \/ status_type.val # TLSEXT_STATUSTYPE_ocsp
     \/ ~ocsp_response.ok
     \/ CBS_len(ocsp_response.val) = 0
     \/ CBS_len(ocsp_response.rest) # 0
    THEN [ok |-> FALSE, val |-> <<>>]
    ELSE [ok |-> TRUE, val |-> ocsp_response.val]

\* What the collaborators of one tls13_process_certificate call answer: all
\* succeed, or the named one fails.
\*   certs_alloc: sk_CRYPTO_BUFFER_new_null      buffer_alloc: the buffer of
\*   an entry         stow: CBS_stow      session_cache_objects: the commit
CertEnv == {"ok", "certs_alloc", "buffer_alloc", "stow", "session_cache_objects"}

CertFail(acc, alert) == [acc EXCEPT !.alert = Some(alert)]

\* Mutant of IsLeafEntry: every entry is treated as the leaf.
IsLeafEntry_Always(acc) == TRUE

\* Lines 293, 314: sk_CRYPTO_BUFFER_num(certs.get()) == 1, the entry being
\* processed is the first of the list
IsLeafEntry(acc) == Len(acc.certs) = 1

\* Mutant of CertStatusRequest: the role of the endpoint is not tested.
CertStatusRequest_AnyRole(acc, status_request, c) ==
  IF ~c.ocsp_stapling_enabled
    THEN CertFail(acc, SSL_AD_UNSUPPORTED_EXTENSION)
  ELSE
    LET r == ParseStatusRequest(status_request) IN
    IF ~r.ok THEN CertFail(acc, SSL_AD_DECODE_ERROR)
    ELSE IF IsLeafEntry(acc)
      THEN IF c.env = "stow"
             THEN CertFail(acc, SSL_AD_INTERNAL_ERROR)
             ELSE [acc EXCEPT !.session.ocsp_response = Some(r.val)]
      ELSE acc

\* Lines 275-299: the status_request extension of one entry
CertStatusRequest(acc, status_request, c) ==
  IF c.server \/ ~c.ocsp_stapling_enabled
    THEN CertFail(acc, SSL_AD_UNSUPPORTED_EXTENSION)
  ELSE
    LET r == ParseStatusRequest(status_request) IN
    IF ~r.ok THEN CertFail(acc, SSL_AD_DECODE_ERROR)
    ELSE IF IsLeafEntry(acc)
      THEN IF c.env = "stow"
             THEN CertFail(acc, SSL_AD_INTERNAL_ERROR)
             ELSE [acc EXCEPT !.session.ocsp_response = Some(r.val)]
      ELSE acc

\* Lines 301-321: the certificate_timestamp extension of one entry
CertSct(acc, sct, c) ==
  IF c.server \/ ~c.signed_cert_timestamps_enabled
    THEN CertFail(acc, SSL_AD_UNSUPPORTED_EXTENSION)
  ELSE IF ~ssl_is_sct_list_valid(sct)
    THEN CertFail(acc, SSL_AD_DECODE_ERROR)
  ELSE IF IsLeafEntry(acc)
    THEN IF c.env = "stow"
           THEN CertFail(acc, SSL_AD_INTERNAL_ERROR)
           ELSE [acc EXCEPT !.session.tlsext_signed_cert_timestamp_list = Some(sct)]
    ELSE acc

\* Lines 227-246: the leaf certificate
CertLeaf(acc, certificate, c) ==
  LET pkey == ssl_cert_parse_pubkey(certificate) IN
  IF IsNull(pkey) THEN CertFail(acc, SSL_AD_DECODE_ERROR)
  ELSE IF ~ssl_cert_check_digital_signature_key_usage(certificate)
    THEN CertFail(acc, SSL_AD_ILLEGAL_PARAMETER)
  ELSE IF c.retain_sha256
    THEN [acc EXCEPT !.pkey = pkey, !.session.peer_sha256 = SHA256(certificate)]
    ELSE [acc EXCEPT !.pkey = pkey]

\* Lines 301-321: the certificate_timestamp extension, if the entry has one
\* and the status_request extension was accepted
CertSctIfPresent(acc, sct, c) ==
  IF ~IsNull(acc.alert) \/ IsNull(sct) THEN acc ELSE CertSct(acc, sct[1], c)

\* Lines 273-321: the extensions found on the entry
CertExtensionsFound(acc, ext, c) ==
  IF ~ext.ok THEN CertFail(acc, ext.alert)
  ELSE CertSctIfPresent(
         IF IsNull(ext.found[TLSEXT_TYPE_status_request]) THEN acc
         ELSE CertStatusRequest(acc, ext.found[TLSEXT_TYPE_status_request][1], c),
         ext.found[TLSEXT_TYPE_certificate_timestamp], c)

\* Lines 248-321: the entry's buffer and its extensions
CertBufferAndExtensions(acc, certificate, extensions, c) ==
  IF ~IsNull(acc.alert) THEN acc
  ELSE IF c.env = "buffer_alloc" THEN CertFail(acc, SSL_AD_INTERNAL_ERROR)
  ELSE CertExtensionsFound([acc EXCEPT !.certs = Append(@, certificate)],
                           ParseCertExtensions(extensions), c)

\* Lines 227-321: one entry of the list, well framed
CertEntryStep(acc, certificate, extensions, c) ==
  CertBufferAndExtensions(
    IF Len(acc.certs) = 0 THEN CertLeaf(acc, certificate, c) ELSE acc,
    certificate, extensions, c)

\* Lines 217-322: the loop over the certificate list
RECURSIVE CertLoop(_, _, _)
CertLoopNext(rest, acc, c) ==
  IF ~IsNull(acc.alert) THEN acc ELSE CertLoop(rest, acc, c)

CertLoopEntry(certificate, extensions, acc, c) ==
  IF ~certificate.ok \/ ~extensions.ok \/ CBS_len(certificate.val) = 0
    THEN CertFail(acc, SSL_AD_DECODE_ERROR)
    ELSE CertLoopNext(extensions.rest,
                      CertEntryStep(acc, certificate.val, extensions.val, c), c)

CertLoopFrom(certificate, acc, c) ==
  CertLoopEntry(certificate, CBS_get_u16_length_prefixed(certificate.rest),
                acc, c)

CertLoop(certificate_list, acc, c) ==
  IF CBS_len(certificate_list) = 0 THEN acc
  ELSE CertLoopFrom(CBS_get_u24_length_prefixed(certificate_list), acc, c)

\* sk_CRYPTO_BUFFER_num of a possibly null stack
sk_num(certs) == IF IsNull(certs) THEN 0 ELSE Len(certs[1])

CertResult(h, session, ret, alerts) ==
  [hs |-> h, session |-> session, ret |-> ret, alerts |-> alerts]

\* Lines 335-357: the commit of the session objects and the anonymous case
CertInstalled(h1, s1, c, allow_anonymous) ==
  IF c.env = "session_cache_objects"
    THEN CertResult(h1, s1, 0, <<SSL_AD_DECODE_ERROR>>)
  ELSE IF sk_num(s1.certs) = 0
    THEN IF ~allow_anonymous
           THEN CertResult(h1, s1, 0, <<SSL_AD_CERTIFICATE_REQUIRED>>)
           ELSE CertResult(h1, [s1 EXCEPT !.verify_result = "X509_V_OK"], 1, <<>>)
  ELSE CertResult(h1, [s1 EXCEPT !.peer_sha256_valid = c.retain_sha256], 1, <<>>)

\* Mutant of NullIfEmpty: an empty list is stored as it is.
NullIfEmpty_KeepEmpty(certs) == Some(certs)

\* Lines 324-328: a null certificate list is stored rather than an empty one
NullIfEmpty(certs) == IF Len(certs) = 0 THEN None ELSE Some(certs)

\* Lines 324-333: a null list for an empty one; the peer key and the list
\* are installed
CertAfterLoop(h, acc, c, allow_anonymous) ==
  IF ~IsNull(acc.alert) THEN CertResult(h, acc.session, 0, acc.alert)
  ELSE CertInstalled(
         [h EXCEPT !.peer_pubkey = acc.pkey],
         [acc.session EXCEPT
            !.certs = NullIfEmpty(acc.certs)],
         c, allow_anonymous)

\* Lines 207-357: the message is well framed
CertFramed(h, session, certificate_list, c, allow_anonymous) ==
  IF c.env = "certs_alloc"
    THEN CertResult(h, session, 0, <<SSL_AD_INTERNAL_ERROR>>)
    ELSE CertAfterLoop(h,
           CertLoop(certificate_list,
                    [certs |-> <<>>, pkey |-> None, session |-> session,
                     alert |-> None], c),
           c, allow_anonymous)

\* Mutant of CertOuter: bytes after the certificate list are not looked for.
CertOuter_AllowTrailing(h, session, context, certificate_list, c, allow_anonymous) ==
  IF \/ ~context.ok
     \/ CBS_len(context.val) # 0
     \/ ~certificate_list.ok
    THEN CertResult(h, session, 0, <<SSL_AD_DECODE_ERROR>>)
    ELSE CertFramed(h, session, certificate_list.val, c, allow_anonymous)

\* Lines 198-205: the request context and the certificate list
CertOuter(h, session, context, certificate_list, c, allow_anonymous) ==
  IF \/ ~context.ok
     \/ CBS_len(context.val) # 0
     \/ ~certificate_list.ok
     \/ CBS_len(certificate_list.rest) # 0
    THEN CertResult(h, session, 0, <<SSL_AD_DECODE_ERROR>>)
    ELSE CertFramed(h, session, certificate_list.val, c, allow_anonymous)

CertOuterFrom(h, session, context, c, allow_anonymous) ==
  CertOuter(h, session, context, CBS_get_u24_length_prefixed(context.rest),
            c, allow_anonymous)

\* tls13_process_certificate: the handshake and session after the call, its
\* return value and the alerts it sent.
tls13_process_certificate(h, session, is_server, config, msg, allow_anonymous, env) ==
  CertOuterFrom(h, session, CBS_get_u8_length_prefixed(msg),
    [server |-> is_server,
     ocsp_stapling_enabled |-> config.ocsp_stapling_enabled,
     signed_cert_timestamps_enabled |-> config.signed_cert_timestamps_enabled,
     retain_sha256 |-> is_server /\ config.retain_only_sha256_of_client_certs,
     env |-> env],
    allow_anonymous)

(***************************************************************************)
(* The Certificate messages the peer may send.                             *)
(***************************************************************************)
\* Certificates of one Certificate message in the model.
MaxCerts == 2

Extension(type, data) == U16(type) \o CBB_u16_length_prefixed(data)

\* A status_request extension with the OCSP response `response`
StatusRequestExt(response) ==
  Extension(TLSEXT_TYPE_status_request,
            U8(TLSEXT_STATUSTYPE_ocsp) \o CBB_u24_length_prefixed(response))

\* A certificate_timestamp extension with one SCT
SctExt(sct) ==
  Extension(TLSEXT_TYPE_certificate_timestamp,
            CBB_u16_length_prefixed(CBB_u16_length_prefixed(sct)))

\* An extension of a type tls13_process_certificate does not name
UnknownExt == Extension(10, <<>>)

\* The extension blocks of the i-th entry: none, each accepted extension,
\* both, an unknown one alone or after an accepted one, a repeated one,
\* malformed contents, and a truncated block.
ExtensionBlocks(i) ==
  {<<>>,
   StatusRequestExt(<<40 + i>>),
   SctExt(<<50 + i>>),
   StatusRequestExt(<<40 + i>>) \o SctExt(<<50 + i>>),
   UnknownExt,
   SctExt(<<50 + i>>) \o UnknownExt,
   StatusRequestExt(<<40 + i>>) \o StatusRequestExt(<<40 + i>>),
   StatusRequestExt(<<>>),
   Extension(TLSEXT_TYPE_status_request, <<2, 0, 0, 1, 9>>),
   SctExt(<<>>),
   <<0>>}

\* The certificate bodies of the i-th entry: a good certificate with key
\* 10 + i, and the bodies that are empty, unreadable, or not for signing.
CertBodies(i) == {<<10 + i, i>>, <<>>, <<3>>, <<4>>}

CertEntry(certificate, extensions) ==
  CBB_u24_length_prefixed(certificate) \o CBB_u16_length_prefixed(extensions)

\* The entries the peer may put at position i. The leaf carries a good
\* certificate with every extension block, or another body without
\* extensions; a later entry carries a good certificate with no extension,
\* each accepted extension or an unknown one, or an empty body.
CertEntries(i) ==
  IF i = 1
    THEN {CertEntry(<<10 + i, i>>, e) : e \in ExtensionBlocks(i)}
           \cup {CertEntry(b, <<>>) : b \in CertBodies(i)}
    ELSE {CertEntry(<<10 + i, i>>, e) :
            e \in {<<>>, StatusRequestExt(<<40 + i>>), SctExt(<<50 + i>>),
                   UnknownExt}}
           \cup {CertEntry(<<>>, <<>>)}

\* The certificate lists of exactly n entries, and of up to n entries.
RECURSIVE CertListsOf(_)
CertListsOf(n) ==
  IF n = 0 THEN {<<>>}
  ELSE {l \o e : l \in CertListsOf(n - 1), e \in CertEntries(n)}

CertLists(n) == UNION {CertListsOf(k) : k \in 0..n}

CertificateMsg(context, certificate_list, trailing) ==
  CBB_u8_length_prefixed(context) \o CBB_u24_length_prefixed(certificate_list)
    \o trailing

\* Well-framed messages, and messages whose framing is broken: a non-empty
\* request context, bytes after the list, a list shorter than its length
\* prefix, and entries whose length prefixes overrun the list.
CertificateMsgs ==
  {CertificateMsg(<<>>, l, <<>>) : l \in CertLists(MaxCerts)}
    \cup {CertificateMsg(<<7>>, CertEntry(<<11, 1>>, <<>>), <<>>),
          CertificateMsg(<<>>, CertEntry(<<11, 1>>, <<>>), <<0>>),
          <<0, 0, 0, 9>> \o CertEntry(<<11, 1>>, <<>>),
          <<0, 0, 0>>,
          <<>>,
          CertificateMsg(<<>>, U24(5) \o <<11, 1>> \o U16(0), <<>>),
          CertificateMsg(<<>>, U24(2) \o <<11, 1>> \o U16(3), <<>>),
          CertificateMsg(<<>>, U24(2) \o <<11, 1>>, <<>>)}

(***************************************************************************)
(* CertificateVerify and Finished: the signature input, the verifiers and  *)
(* the builders of the local flight.                                       *)
(***************************************************************************)
ssl_cert_verify_server == "ssl_cert_verify_server"
ssl_cert_verify_client == "ssl_cert_verify_client"
ssl_cert_verify_channel_id == "ssl_cert_verify_channel_id"

\* "TLS 1.3, server CertificateVerify" with its NUL byte
kContextServer ==
  <<84, 76, 83, 32, 49, 46, 51, 44, 32, 115, 101, 114, 118, 101, 114, 32, 67, 101, 114, 116, 105, 102, 105, 99, 97, 116, 101, 86, 101, 114, 105, 102, 121, 0>>

\* "TLS 1.3, client CertificateVerify" with its NUL byte
kContextClient ==
  <<84, 76, 83, 32, 49, 46, 51, 44, 32, 99, 108, 105, 101, 110, 116, 32, 67, 101, 114, 116, 105, 102, 105, 99, 97, 116, 101, 86, 101, 114, 105, 102, 121, 0>>

\* "TLS 1.3, Channel ID" with its NUL byte
kContextChannelId ==
  <<84, 76, 83, 32, 49, 46, 51, 44, 32, 67, 104, 97, 110, 110, 101, 108, 32, 73, 68, 0>>

\* Mutant of kSignaturePadding: one byte short.
kSignaturePadding_Short == [i \in 1..63 |-> 32]

\* Lines 150-155: the padding of the signature input
kSignaturePadding == [i \in 1..64 |-> 32]

\* tls13_get_cert_verify_signature_input: [ok, out]
tls13_get_cert_verify_signature_input(h, cert_verify_context, env) ==
  IF env = "signature_input" THEN [ok |-> FALSE, out |-> <<>>]
  ELSE IF cert_verify_context = ssl_cert_verify_server
    THEN [ok |-> TRUE,
          out |-> kSignaturePadding \o kContextServer \o h.transcript_hash]
  ELSE IF cert_verify_context = ssl_cert_verify_client
    THEN [ok |-> TRUE,
          out |-> kSignaturePadding \o kContextClient \o h.transcript_hash]
  ELSE IF cert_verify_context = ssl_cert_verify_channel_id
    THEN [ok |-> TRUE,
          out |-> kSignaturePadding \o kContextChannelId \o h.transcript_hash]
  ELSE [ok |-> FALSE, out |-> <<>>]

\* The digest inside a signature: a collision-free hash, written as the
\* tagged input.
Digest(data) == <<"digest", data>>

\* The signature of `msg` under the key `pkey` with `signature_algorithm`:
\* what ssl_private_key_sign produces and ssl_public_key_verify accepts.
Signature(pkey, signature_algorithm, msg) ==
  <<pkey, signature_algorithm % 256, Digest(msg)>>

ssl_public_key_verify(signature, signature_algorithm, pkey, msg) ==
  signature = Signature(pkey, signature_algorithm, msg)

\* tls12_check_peer_sigalg: the signature algorithms the local policy accepts
\* from the peer (ecdsa_secp256r1_sha256, rsa_pss_sha256).
PeerSigalgs == {1027, 2052}
tls12_check_peer_sigalg(signature_algorithm) ==
  IF signature_algorithm \in PeerSigalgs
    THEN [ok |-> TRUE, alert |-> SSL_AD_DECODE_ERROR]
    ELSE [ok |-> FALSE, alert |-> SSL_AD_ILLEGAL_PARAMETER]

\* Mutant of VerifyContext: the verifier uses the label it signs with.
VerifyContext_OwnLabel(is_server) ==
  IF is_server THEN ssl_cert_verify_server ELSE ssl_cert_verify_client

\* Lines 389, 546: the context label each role verifies and signs with
VerifyContext(is_server) ==
  IF is_server THEN ssl_cert_verify_client ELSE ssl_cert_verify_server
SignContext(is_server) ==
  IF is_server THEN ssl_cert_verify_server ELSE ssl_cert_verify_client

\* tls13_process_certificate_verify
tls13_process_certificate_verify(h, session, is_server, msg, env) ==
  LET Result(s1, ret, alerts) ==
        [hs |-> h, session |-> s1, ret |-> ret, alerts |-> alerts]
      signature_algorithm == CBS_get_u16(msg)
      signature == CBS_get_u16_length_prefixed(signature_algorithm.rest)
  IN
  IF IsNull(h.peer_pubkey) THEN Result(session, 0, <<>>)
  ELSE IF \/ ~signature_algorithm.ok
          \/ ~signature.ok
          \/ CBS_len(signature.rest) # 0
    THEN Result(session, 0, <<SSL_AD_DECODE_ERROR>>)
  ELSE
    LET check == tls12_check_peer_sigalg(signature_algorithm.val) IN
    IF ~check.ok THEN Result(session, 0, <<check.alert>>)
    ELSE
      LET s1 == [session EXCEPT
                   !.peer_signature_algorithm = signature_algorithm.val]
          input == tls13_get_cert_verify_signature_input(
                     h, VerifyContext(is_server), env)
      IN
      IF ~input.ok THEN Result(s1, 0, <<SSL_AD_INTERNAL_ERROR>>)
      ELSE IF ~ssl_public_key_verify(signature.val, signature_algorithm.val,
                                     h.peer_pubkey[1], input.out)
        THEN Result(s1, 0, <<SSL_AD_DECRYPT_ERROR>>)
      ELSE Result(s1, 1, <<>>)

\* tls13_finished_mac: the verify data of the given side, hash_len bytes
tls13_finished_mac(h, is_server) ==
  [i \in 1..h.hash_len |->
     (h.transcript_hash[i] + (IF is_server THEN 1 ELSE 2)) % 256]

\* CRYPTO_memcmp(a, b, len) == 0 on buffers that hold at least len bytes
MemEqual(a, b, len) == \A i \in 1..len : a[i] = b[i]

\* Lines 428-430: the comparison of the received Finished
FinishedOk(verify_data, verify_data_len, msg) ==
  Len(msg) = verify_data_len /\ MemEqual(verify_data, msg, verify_data_len)

\* tls13_process_finished
tls13_process_finished(h, session, is_server, msg, use_saved_value, env) ==
  LET Result(ret, alerts) ==
        [hs |-> h, session |-> session, ret |-> ret, alerts |-> alerts]
  IN
  IF ~use_saved_value /\ env = "finished_mac" THEN Result(0, <<>>)
  ELSE
    LET verify_data == IF use_saved_value THEN h.expected_client_finished
                       ELSE tls13_finished_mac(h, ~is_server)
        verify_data_len == IF use_saved_value THEN h.hash_len
                           ELSE Len(verify_data)
    IN
    IF ~FinishedOk(verify_data, verify_data_len, msg)
      THEN Result(0, <<SSL_AD_DECRYPT_ERROR>>)
      ELSE Result(1, <<>>)

\* ssl_has_certificate
ssl_has_certificate(config) == ~IsNull(config.chain)

\* Lines 500-510: the entries after the leaf, each without extensions
RECURSIVE ChainTail(_, _)
ChainTail(chain, i) ==
  IF i > Len(chain) THEN <<>>
  ELSE CBB_u24_length_prefixed(chain[i]) \o U16(0) \o ChainTail(chain, i + 1)

\* Mutant of LeafExtensions: what is available is attached, requested or not.
LeafExtensions_Unrequested(h, config) ==
  (IF ~IsNull(config.signed_cert_timestamp_list)
     THEN U16(TLSEXT_TYPE_certificate_timestamp)
            \o CBB_u16_length_prefixed(config.signed_cert_timestamp_list[1])
     ELSE <<>>)
  \o
  (IF ~IsNull(config.ocsp_response)
     THEN U16(TLSEXT_TYPE_status_request)
            \o CBB_u16_length_prefixed(
                 U8(TLSEXT_STATUSTYPE_ocsp)
                   \o CBB_u24_length_prefixed(config.ocsp_response[1]))
     ELSE <<>>)

\* Lines 470-498: the extensions of the leaf entry
LeafExtensions(h, config) ==
  (IF h.scts_requested /\ ~IsNull(config.signed_cert_timestamp_list)
     THEN U16(TLSEXT_TYPE_certificate_timestamp)
            \o CBB_u16_length_prefixed(config.signed_cert_timestamp_list[1])
     ELSE <<>>)
  \o
  (IF h.ocsp_stapling_requested /\ ~IsNull(config.ocsp_response)
     THEN U16(TLSEXT_TYPE_status_request)
            \o CBB_u16_length_prefixed(
                 U8(TLSEXT_STATUSTYPE_ocsp)
                   \o CBB_u24_length_prefixed(config.ocsp_response[1]))
     ELSE <<>>)

\* Mutant of LeafBytes: the last certificate of the chain is sent first.
LeafBytes_Last(config) == config.chain[1][Len(config.chain[1])]

\* Line 459: sk_CRYPTO_BUFFER_value(cert->chain, 0), the leaf certificate
LeafBytes(config) == config.chain[1][1]

\* tls13_add_certificate: its return value, the alerts it sent and the
\* messages it queued.
tls13_add_certificate(h, config, env) ==
  IF env \in {"init_message", "cbb"}
    THEN [ret |-> 0, alerts |-> <<>>, msgs |-> <<>>]
  ELSE
    LET body == IF ~ssl_has_certificate(config)
                  THEN U8(0) \o CBB_u24_length_prefixed(<<>>)
                  ELSE U8(0) \o CBB_u24_length_prefixed(
                         CBB_u24_length_prefixed(LeafBytes(config))
                           \o CBB_u16_length_prefixed(LeafExtensions(h, config))
                           \o ChainTail(config.chain[1], 2))
    IN
    IF env = "add_message"
      THEN [ret |-> 0, alerts |-> <<>>, msgs |-> <<>>]
      ELSE [ret |-> 1, alerts |-> <<>>,
            msgs |-> <<[type |-> "certificate", body |-> body]>>]

\* tls13_add_certificate_verify; signature_algorithm is the choice of
\* tls1_choose_signature_algorithm.
tls13_add_certificate_verify(h, is_server, signature_algorithm, env) ==
  LET Result(ret, alerts, msgs) ==
        [ret |-> ret, alerts |-> alerts, msgs |-> msgs]
      input == tls13_get_cert_verify_signature_input(
                 h, SignContext(is_server), env)
  IN
  IF env = "choose_signature_algorithm"
    THEN Result("ssl_private_key_failure", <<>>, <<>>)
  ELSE IF env = "init_message"
    THEN Result("ssl_private_key_failure", <<>>, <<>>)
  ELSE IF env = "cbb"
    THEN Result("ssl_private_key_failure", <<SSL_AD_INTERNAL_ERROR>>, <<>>)
  ELSE IF ~input.ok
    THEN Result("ssl_private_key_failure", <<SSL_AD_INTERNAL_ERROR>>, <<>>)
  ELSE IF env = "sign_retry"
    THEN Result("ssl_private_key_retry", <<>>, <<>>)
  ELSE IF env = "sign_failure"
    THEN Result("ssl_private_key_failure", <<>>, <<>>)
  ELSE IF env = "add_message"
    THEN Result("ssl_private_key_failure", <<>>, <<>>)
  ELSE Result("ssl_private_key_success", <<>>,
              <<[type |-> "certificate_verify",
                 body |-> U16(signature_algorithm)
                            \o CBB_u16_length_prefixed(
                                 Signature(h.local_pubkey[1],
                                           signature_algorithm, input.out))]>>)

\* tls13_add_finished
tls13_add_finished(h, is_server, env) ==
  IF env = "finished_mac"
    THEN [ret |-> 0, alerts |-> <<SSL_AD_INTERNAL_ERROR>>, msgs |-> <<>>]
  ELSE IF env \in {"init_message", "cbb", "add_message"}
    THEN [ret |-> 0, alerts |-> <<>>, msgs |-> <<>>]
  ELSE [ret |-> 1, alerts |-> <<>>,
        msgs |-> <<[type |-> "finished",
                    body |-> tls13_finished_mac(h, is_server)]>>]

(***************************************************************************)
(* The handlers of one handshake, called in the order of the protocol.     *)
(***************************************************************************)
\* The transcript hashes of the model (hash_len bytes each).
TranscriptHashes == {<<17, 34>>, <<17, 35>>}

\* The certificates, SCT list and OCSP response of the local configuration.
LocalChains == {None, Some(<<(<<21, 1>>)>>), Some(<<(<<21, 1>>), (<<22, 2>>)>>)}
LocalSctLists == {None, Some(CBB_u16_length_prefixed(CBB_u16_length_prefixed(<<61>>)))}
LocalOcspResponses == {None, Some(<<71>>)}

\* hs->new_session as ssl_session_new leaves it.
NewSession ==
  [certs |-> None,
   ocsp_response |-> None,
   tlsext_signed_cert_timestamp_list |-> None,
   verify_result |-> "X509_V_ERR_INVALID_CALL",
   peer_sha256 |-> <<"unset", <<>>>>,
   peer_sha256_valid |-> FALSE,
   peer_signature_algorithm |-> 0]

\* The handshake before any Certificate message: no peer key yet; a server
\* holds the client Finished it expects.
NewHandshake(transcript_hash, chain, scts_requested, ocsp_stapling_requested) ==
  LET h == [peer_pubkey |-> None,
            local_pubkey |-> IF IsNull(chain) THEN None
                             ELSE ssl_cert_parse_pubkey(chain[1][1]),
            transcript_hash |-> transcript_hash,
            hash_len |-> Len(transcript_hash),
            expected_client_finished |-> <<>>,
            scts_requested |-> scts_requested,
            ocsp_stapling_requested |-> ocsp_stapling_requested]
  IN [h EXCEPT !.expected_client_finished = tls13_finished_mac(h, FALSE)]

ReceiverConfigs ==
  [retain_only_sha256_of_client_certs : BOOLEAN,
   ocsp_stapling_enabled : BOOLEAN,
   signed_cert_timestamps_enabled : BOOLEAN,
   chain : {None},
   signed_cert_timestamp_list : {None},
   ocsp_response : {None}]

SenderConfigs ==
  [retain_only_sha256_of_client_certs : {FALSE},
   ocsp_stapling_enabled : {FALSE},
   signed_cert_timestamps_enabled : {FALSE},
   chain : LocalChains,
   signed_cert_timestamp_list : LocalSctLists,
   ocsp_response : LocalOcspResponses]

NoOp == [op |-> "none", failed |-> FALSE]

\* No endpoint at the other end is modelled.
NoPeer == [round |-> 0]

InitRecv ==
  /\ server \in BOOLEAN
  /\ ssl_config \in ReceiverConfigs
  /\ \E t \in TranscriptHashes : hs = NewHandshake(t, None, FALSE, FALSE)
  /\ new_session = NewSession
  /\ op_call = NoOp
  /\ recv_phase = 0
  /\ send_phase = 0
  /\ peer = NoPeer

InitSend ==
  /\ server \in BOOLEAN
  /\ ssl_config \in SenderConfigs
  /\ \E t \in TranscriptHashes, sr \in BOOLEAN, or \in BOOLEAN :
       hs = NewHandshake(t, ssl_config.chain, sr, or)
  /\ new_session = NewSession
  /\ op_call = NoOp
  /\ recv_phase = 0
  /\ send_phase = 0
  /\ peer = NoPeer

\* The handler state of a connection whose handshake is not being modelled.
ParkedOps ==
  /\ ssl_config \in {c \in ReceiverConfigs :
                       /\ ~c.retain_only_sha256_of_client_certs
                       /\ ~c.ocsp_stapling_enabled
                       /\ ~c.signed_cert_timestamps_enabled}
  /\ hs = NewHandshake(<<17, 34>>, None, FALSE, FALSE)
  /\ new_session = NewSession
  /\ op_call = NoOp
  /\ recv_phase = 0
  /\ send_phase = 0
  /\ peer = NoPeer

\* A handler that fails makes the stage function return ssl_hs_error: no
\* further handler of this handshake runs.
HandshakeFailed == op_call.failed

kuRest == <<key_update_count, key_update_pending, read_key_gen, write_key_gen,
            acks_queued, ph_call, ku_run, ku_run_rotated, n_msgs, n_other,
            n_flushes>>

\* The CertificateVerify messages the peer may send: every combination of an
\* algorithm, a signing key and a context label, and malformed messages.
CertificateVerifyMsg(signature_algorithm, signature) ==
  U16(signature_algorithm) \o CBB_u16_length_prefixed(signature)

CertificateVerifyMsgs(h) ==
  LET keys == {12} \cup (IF IsNull(h.peer_pubkey) THEN {11} ELSE {h.peer_pubkey[1]})
      labels == {ssl_cert_verify_server, ssl_cert_verify_client,
                 ssl_cert_verify_channel_id}
      signed == {CertificateVerifyMsg(a,
                    Signature(k, a,
                      tls13_get_cert_verify_signature_input(h, l, "ok").out)) :
                  a \in {1027, 2052, 513}, k \in keys, l \in labels}
  IN signed \cup {<<>>, <<4>>, <<4, 3, 0, 9, 1>>}
            \cup {m \o <<0>> : m \in {x \in signed : x[2] = 3 /\ x[5] # 12}}

\* The Finished messages the peer may send: the verify data of either side,
\* each with one bit flipped in one byte, cut short, extended, and nothing.
FlipBit(data, i) == [data EXCEPT ![i] = IF @ % 2 = 0 THEN @ + 1 ELSE @ - 1]

FinishedMsgs(h) ==
  LET macs == {tls13_finished_mac(h, TRUE), tls13_finished_mac(h, FALSE)} IN
  macs \cup {FlipBit(m, i) : m \in macs, i \in 1..h.hash_len}
       \cup {Take(m, h.hash_len - 1) : m \in macs}
       \cup {m \o <<0>> : m \in macs}
       \cup {<<>>}

\* The stage function handles the peer's Certificate message.
CertificateProcessed(msg, allow_anonymous, env, r) ==
  /\ hs' = r.hs
  /\ new_session' = r.session
  /\ op_call' = [op |-> "tls13_process_certificate", msg |-> msg,
                 allow_anonymous |-> allow_anonymous, env |-> env,
                 ret |-> r.ret, alerts |-> r.alerts, failed |-> r.ret = 0]

ProcessCertificate ==
  /\ UNCHANGED <<kuVars, drvVars>>
  /\ ~HandshakeFailed
  /\ recv_phase = 0
  /\ \E msg \in CertificateMsgs, allow_anonymous \in BOOLEAN, env \in CertEnv :
       CertificateProcessed(msg, allow_anonymous, env,
         tls13_process_certificate(hs, new_session, server, ssl_config,
                                   msg, allow_anonymous, env))
  /\ recv_phase' = 1
  /\ UNCHANGED <<ssl_config, send_phase, peer>>

\* The stage function handles the peer's CertificateVerify message.
ProcessCertificateVerify ==
  /\ UNCHANGED <<kuVars, drvVars>>
  /\ ~HandshakeFailed
  /\ recv_phase <= 1
  /\ \E msg \in CertificateVerifyMsgs(hs), env \in {"ok", "signature_input"} :
       LET r == tls13_process_certificate_verify(hs, new_session, server, msg, env)
       IN
       /\ hs' = r.hs
       /\ new_session' = r.session
       /\ op_call' = [op |-> "tls13_process_certificate_verify", msg |-> msg,
                      ret |-> r.ret, alerts |-> r.alerts, failed |-> r.ret = 0]
  /\ recv_phase' = 2
  /\ UNCHANGED <<ssl_config, send_phase, peer>>

\* The stage function handles the peer's Finished message.
ProcessFinished ==
  /\ UNCHANGED <<kuVars, drvVars>>
  /\ ~HandshakeFailed
  /\ recv_phase <= 2
  /\ \E msg \in FinishedMsgs(hs), use_saved_value \in BOOLEAN,
        env \in {"ok", "finished_mac"} :
       LET r == tls13_process_finished(hs, new_session, server, msg,
                                       use_saved_value, env)
       IN
       /\ use_saved_value => server
       /\ hs' = r.hs
       /\ new_session' = r.session
       /\ op_call' = [op |-> "tls13_process_finished", msg |-> msg,
                      use_saved_value |-> use_saved_value, ret |-> r.ret,
                      alerts |-> r.alerts, failed |-> r.ret = 0]
  /\ recv_phase' = 3
  /\ UNCHANGED <<ssl_config, send_phase, peer>>

BuilderEnv == {"ok", "init_message", "cbb", "add_message"}

\* The stage function builds the local Certificate message.
AddCertificate ==
  /\ UNCHANGED <<server, kuRest, drvVars>>
  /\ ~HandshakeFailed
  /\ send_phase = 0
  /\ \E env \in BuilderEnv :
       LET r == tls13_add_certificate(hs, ssl_config, env) IN
       /\ flight' = flight \o r.msgs
       /\ op_call' = [op |-> "tls13_add_certificate", ret |-> r.ret,
                      alerts |-> r.alerts, msgs |-> r.msgs, failed |-> r.ret = 0]
  /\ send_phase' = 1
  /\ UNCHANGED <<ssl_config, hs, new_session, recv_phase, peer>>

\* The stage function builds the local CertificateVerify message; a pending
\* signing operation makes it call again later.
AddCertificateVerify ==
  /\ UNCHANGED <<server, kuRest, drvVars>>
  /\ ~HandshakeFailed
  /\ send_phase = 1
  /\ ssl_has_certificate(ssl_config)
  /\ \E signature_algorithm \in PeerSigalgs,
        env \in BuilderEnv \cup {"choose_signature_algorithm", "signature_input",
                                 "sign_retry", "sign_failure"} :
       LET r == tls13_add_certificate_verify(hs, server, signature_algorithm, env)
       IN
       /\ flight' = flight \o r.msgs
       /\ op_call' = [op |-> "tls13_add_certificate_verify", ret |-> r.ret,
                      alerts |-> r.alerts, msgs |-> r.msgs,
                      failed |-> r.ret = "ssl_private_key_failure"]
       /\ send_phase' = IF r.ret = "ssl_private_key_retry" THEN 1 ELSE 2
  /\ UNCHANGED <<ssl_config, hs, new_session, recv_phase, peer>>

\* The stage function builds the local Finished message.
AddFinished ==
  /\ UNCHANGED <<server, kuRest, drvVars>>
  /\ ~HandshakeFailed
  /\ send_phase \in {1, 2}
  /\ \E env \in BuilderEnv \cup {"finished_mac"} :
       LET r == tls13_add_finished(hs, server, env) IN
       /\ flight' = flight \o r.msgs
       /\ op_call' = [op |-> "tls13_add_finished", ret |-> r.ret,
                      alerts |-> r.alerts, msgs |-> r.msgs, failed |-> r.ret = 0]
  /\ send_phase' = 3
  /\ UNCHANGED <<ssl_config, hs, new_session, recv_phase, peer>>

\* The labels a caller may pass: the three of ssl_cert_verify_context_t and
\* a value outside the enumeration.
CertVerifyContexts ==
  {ssl_cert_verify_server, ssl_cert_verify_client, ssl_cert_verify_channel_id,
   "ssl_cert_verify_undefined"}

\* A caller asks for the signature input of the current transcript.
GetSignatureInput ==
  /\ UNCHANGED <<kuVars, drvVars>>
  /\ \E cert_verify_context \in CertVerifyContexts,
        env \in {"ok", "signature_input"} :
       LET r == tls13_get_cert_verify_signature_input(hs, cert_verify_context, env)
       IN op_call' = [op |-> "tls13_get_cert_verify_signature_input",
                      cert_verify_context |-> cert_verify_context,
                      ok |-> r.ok, out |-> r.out, failed |-> ~r.ok]
  /\ UNCHANGED <<ssl_config, hs, new_session, recv_phase, send_phase, peer>>

(***************************************************************************)
(* The certificate codec between two endpoints: the local endpoint builds  *)
(* its Certificate message, the peer at the other end processes it, builds *)
(* a Certificate message from the chain it decoded, and processes that.    *)
(***************************************************************************)
\* What ssl->cert may hold when tls13_add_certificate reads it: the code
\* sends whatever chain, SCT list and OCSP response are configured. The leaf
\* has a public key; its key usage may exclude signing (byte 4).
CodecChains ==
  LocalChains \cup {Some(<<(<<4, 1>>)>>), Some(<<(<<4, 1>>), (<<22, 2>>)>>)}
CodecSctLists == LocalSctLists \cup {Some(<<>>)}
CodecOcspResponses == LocalOcspResponses \cup {Some(<<>>)}

CodecConfigs ==
  [retain_only_sha256_of_client_certs : {FALSE},
   ocsp_stapling_enabled : {FALSE},
   signed_cert_timestamps_enabled : {FALSE},
   chain : CodecChains,
   signed_cert_timestamp_list : CodecSctLists,
   ocsp_response : CodecOcspResponses]

\* The peer before it has handled anything.
NewPeer(config) ==
  [round |-> 0,
   config |-> config,
   hs |-> NewHandshake(<<17, 34>>, None, FALSE, FALSE),
   session |-> NewSession,
   msg |-> <<>>,
   allow_anonymous |-> FALSE,
   env |-> "ok",
   ret |-> 0,
   alerts |-> <<>>,
   first |-> [ret |-> 0, env |-> "ok", certs |-> None, peer_pubkey |-> None]]

InitSpecCodec ==
  /\ server \in BOOLEAN
  /\ ssl_config \in CodecConfigs
  /\ \E sr \in BOOLEAN, or \in BOOLEAN :
       hs = NewHandshake(<<17, 34>>, ssl_config.chain, sr, or)
  /\ new_session = NewSession
  /\ op_call = NoOp
  /\ recv_phase = 0
  /\ send_phase = 0
  /\ peer \in {NewPeer(c) : c \in ReceiverConfigs}
  /\ ParkedKU
  /\ ParkedDrv

\* The peer has handled a Certificate message: what it holds afterwards.
PeerProcessed(round, msg, allow_anonymous, env, r) ==
  [peer EXCEPT !.round = round, !.hs = r.hs, !.session = r.session,
               !.msg = msg, !.allow_anonymous = allow_anonymous,
               !.env = env, !.ret = r.ret, !.alerts = r.alerts,
               !.first = IF round = 1
                           THEN [ret |-> r.ret, env |-> env,
                                 certs |-> r.session.certs,
                                 peer_pubkey |-> r.hs.peer_pubkey]
                           ELSE @]

\* The peer, of the opposite role, processes the Certificate message at the
\* head of the flight: the local one first, then the one built from the
\* chain it decoded.
PeerProcessCertificate ==
  /\ UNCHANGED <<server, kuRest, drvVars>>
  /\ peer.round \in {0, 2}
  /\ flight # <<>>
  /\ Head(flight).type = "certificate"
  /\ \E allow_anonymous \in BOOLEAN, env \in CertEnv :
       peer' = PeerProcessed(peer.round + 1, Head(flight).body,
                 allow_anonymous, env,
                 tls13_process_certificate(
                   IF peer.round = 0 THEN peer.hs
                   ELSE NewHandshake(<<17, 34>>, None, FALSE, FALSE),
                   IF peer.round = 0 THEN peer.session ELSE NewSession,
                   ~server, peer.config, Head(flight).body,
                   allow_anonymous, env))
  /\ flight' = Tail(flight)
  /\ UNCHANGED <<ssl_config, hs, new_session, op_call, recv_phase, send_phase>>

\* The configuration and handshake of an endpoint that sends the chain, SCT
\* list and OCSP response a session holds.
DecodedConfig(session) ==
  [retain_only_sha256_of_client_certs |-> FALSE,
   ocsp_stapling_enabled |-> FALSE,
   signed_cert_timestamps_enabled |-> FALSE,
   chain |-> session.certs,
   signed_cert_timestamp_list |-> session.tlsext_signed_cert_timestamp_list,
   ocsp_response |-> session.ocsp_response]

DecodedHandshake(session) ==
  NewHandshake(<<17, 34>>, session.certs,
               ~IsNull(session.tlsext_signed_cert_timestamp_list),
               ~IsNull(session.ocsp_response))

\* The chain the peer decoded is encoded again, with the extensions the
\* session holds.
PeerEncodeDecoded ==
  /\ UNCHANGED <<server, kuRest, drvVars>>
  /\ peer.round = 1
  /\ peer.ret = 1
  /\ flight = <<>>
  /\ flight' = tls13_add_certificate(DecodedHandshake(peer.session),
                                     DecodedConfig(peer.session), "ok").msgs
  /\ peer' = [peer EXCEPT !.round = 2]
  /\ UNCHANGED <<ssl_config, hs, new_session, op_call, recv_phase, send_phase>>

(***************************************************************************)
(* KeyUpdate between two endpoints that both run tls13_post_handshake: the *)
(* local endpoint (ssl->s3 above) and the endpoint at the other end, held  *)
(* in `peer` with the two directions of the wire between them.             *)
(***************************************************************************)
\* KeyUpdates the applications of the two endpoints start by themselves.
MaxInitiated == 3

\* Failure points of one tls13_receive_key_update call.
ExchangeEnv == {"ok", "rotate_open", "init_message", "add_message", "rotate_seal"}

\* What a flush puts on the wire: the queued messages, marked as written by
\* the handshake logic.
OnWire(msgs) ==
  [i \in DOMAIN msgs |->
     [type |-> msgs[i].type, body |-> msgs[i].body, origin |-> "stack"]]

\* The application of one endpoint has a KeyUpdate sent to the other one,
\* with either request code.
Initiate ==
  /\ UNCHANGED <<kuVars, drvVars>>
  /\ peer.initiated < MaxInitiated
  /\ \E to_local \in BOOLEAN,
        code \in {SSL_KEY_UPDATE_NOT_REQUESTED, SSL_KEY_UPDATE_REQUESTED} :
       LET m == [type |-> SSL3_MT_KEY_UPDATE, body |-> <<code>>,
                 origin |-> "application"]
           n == IF code = SSL_KEY_UPDATE_REQUESTED THEN 1 ELSE 0
       IN
       peer' = IF to_local
                 THEN [peer EXCEPT !.initiated = @ + 1,
                                   !.to_local = Append(@, m),
                                   !.req_to_local = @ + n]
                 ELSE [peer EXCEPT !.initiated = @ + 1,
                                   !.to_peer = Append(@, m),
                                   !.req_to_peer = @ + n]
  /\ UNCHANGED <<ssl_config, hs, new_session, op_call, recv_phase, send_phase>>

\* The local endpoint reads the next message off the wire and hands it to
\* tls13_post_handshake.
LocalReceive ==
  /\ UNCHANGED <<drvVars>>
  /\ ~ConnectionFailed
  /\ peer.to_local # <<>>
  /\ \E env \in ExchangeEnv :
       LET r == tls13_post_handshake(S3State, server, Head(peer.to_local).type,
                                     Head(peer.to_local).body, env)
       IN
       /\ key_update_count' = r.s.key_update_count
       /\ key_update_pending' = r.s.key_update_pending
       /\ read_key_gen' = r.s.read_key_gen
       /\ write_key_gen' = r.s.write_key_gen
       /\ flight' = r.s.flight
       /\ acks_queued' = r.s.acks_queued
       /\ ph_call' = [op |-> "post_handshake",
                      message_type |-> Head(peer.to_local).type,
                      body |-> Head(peer.to_local).body, ticket |-> r.ticket,
                      ret |-> r.ret, alerts |-> r.alerts,
                      acked |-> r.s.acks_queued # acks_queued]
  /\ peer' = [peer EXCEPT !.to_local = Tail(@)]
  /\ n_msgs' = n_msgs + 1
  /\ UNCHANGED <<server, ku_run, ku_run_rotated, n_other, n_flushes>>
  /\ UNCHANGED <<ssl_config, hs, new_session, op_call, recv_phase, send_phase>>

\* The local transport writes the queued flight to the wire and clears the
\* pending-acknowledgement flag.
LocalFlush ==
  /\ UNCHANGED <<drvVars>>
  /\ ~ConnectionFailed
  /\ flight # <<>>
  /\ peer' = [peer EXCEPT !.to_peer = @ \o OnWire(flight)]
  /\ flight' = <<>>
  /\ key_update_pending' = FALSE
  /\ ph_call' = [op |-> "flush"]
  /\ UNCHANGED <<server, key_update_count, read_key_gen, write_key_gen,
                 acks_queued, ku_run, ku_run_rotated, n_msgs, n_other,
                 n_flushes>>
  /\ UNCHANGED <<ssl_config, hs, new_session, op_call, recv_phase, send_phase>>

\* The peer after its tls13_post_handshake call returned r.
PeerReceived(r) ==
  peer' = [peer EXCEPT !.s = r.s, !.failed = r.ret = 0, !.to_peer = Tail(@)]

\* The peer reads the next message off the wire and hands it to
\* tls13_post_handshake.
PeerReceive ==
  /\ UNCHANGED <<kuVars, drvVars>>
  /\ ~peer.failed
  /\ peer.to_peer # <<>>
  /\ \E env \in ExchangeEnv :
       PeerReceived(tls13_post_handshake(peer.s, ~server,
                                         Head(peer.to_peer).type,
                                         Head(peer.to_peer).body, env))
  /\ UNCHANGED <<ssl_config, hs, new_session, op_call, recv_phase, send_phase>>

\* The peer's transport writes its queued flight to the wire.
PeerFlush ==
  /\ UNCHANGED <<kuVars, drvVars>>
  /\ ~peer.failed
  /\ peer.s.flight # <<>>
  /\ peer' = [peer EXCEPT !.to_local = @ \o OnWire(peer.s.flight),
                          !.s.flight = <<>>,
                          !.s.key_update_pending = FALSE]
  /\ UNCHANGED <<ssl_config, hs, new_session, op_call, recv_phase, send_phase>>

(***************************************************************************)
(* The specifications.                                                     *)
(***************************************************************************)
vars == <<kuVars, drvVars, opsVars>>

NextExchange ==
  Initiate \/ LocalReceive \/ LocalFlush \/ PeerReceive \/ PeerFlush

\* Two connected endpoints after their handshake, nothing on the wire.
InitSpecExchange ==
  /\ InitKU
  /\ ParkedDrv
  /\ ssl_config \in {c \in ReceiverConfigs :
                       /\ ~c.retain_only_sha256_of_client_certs
                       /\ ~c.ocsp_stapling_enabled
                       /\ ~c.signed_cert_timestamps_enabled}
  /\ hs = NewHandshake(<<17, 34>>, None, FALSE, FALSE)
  /\ new_session = NewSession
  /\ op_call = NoOp
  /\ recv_phase = 0
  /\ send_phase = 0
  /\ peer = [s |-> [key_update_count |-> 0, key_update_pending |-> FALSE,
                    read_key_gen |-> 0, write_key_gen |-> 0,
                    flight |-> <<>>, acks_queued |-> 0],
             failed |-> FALSE,
             to_peer |-> <<>>, to_local |-> <<>>,
             initiated |-> 0, req_to_local |-> 0, req_to_peer |-> 0]

\* Messages on the wire are delivered, queued flights are written, and the
\* applications start their bounded number of KeyUpdates.
SpecExchange ==
  InitSpecExchange /\ [][NextExchange]_vars /\ WF_vars(NextExchange)

NextKU == PostHandshake \/ FlushFlight

InitSpecKU == InitKU /\ ParkedDrv /\ ParkedOps

SpecKU == InitSpecKU /\ [][NextKU]_vars

InitSpecDrv == InitDrv /\ server = FALSE /\ ParkedKU /\ ParkedOps

SpecDrv == InitSpecDrv /\ [][NextDrv]_vars

NextRecv == ProcessCertificate \/ ProcessCertificateVerify \/ ProcessFinished

InitSpecRecv == InitRecv /\ ParkedKU /\ ParkedDrv

SpecRecv == InitSpecRecv /\ [][NextRecv]_vars

NextSend == AddCertificate \/ AddCertificateVerify \/ AddFinished

NextCodec == AddCertificate \/ PeerProcessCertificate \/ PeerEncodeDecoded

SpecCodec == InitSpecCodec /\ [][NextCodec]_vars

InitSpecSend == InitSend /\ ParkedKU /\ ParkedDrv

SpecSend == InitSpecSend /\ [][NextSend]_vars

SpecInput == InitSpecSend /\ [][GetSignatureInput]_vars

(***************************************************************************)
(* Properties of the post-handshake dispatch (checked under SpecKU).       *)
(***************************************************************************)
\* A step that dispatches one message to tls13_post_handshake.
DispatchStep == n_msgs' = n_msgs + 1
KeyUpdateStep == DispatchStep /\ ph_call'.message_type = SSL3_MT_KEY_UPDATE
\* A KeyUpdate that got past the ceiling test, so tls13_receive_key_update ran.
ReceiveStep == KeyUpdateStep /\ key_update_count < 32

KeysUnchanged == read_key_gen' = read_key_gen /\ write_key_gen' = write_key_gen
NoAckQueued == acks_queued' = acks_queued /\ flight' = flight
AckQueued ==
  /\ acks_queued' = acks_queued + 1
  /\ flight' = Append(flight, [type |-> "key_update", body |-> <<0>>])
UnflushedAcks == Cardinality({i \in DOMAIN flight : flight[i].type = "key_update"})

\* C1: with the key-update counter at 32, one more consecutive KeyUpdate
\* message, whatever its body, fails with an unexpected_message alert, rotates
\* neither traffic key and queues no acknowledgement; and no run of
\* consecutive KeyUpdate messages has more than 32 messages that rotate a key.
C1_KeyUpdateCeiling ==
  [][/\ (KeyUpdateStep /\ key_update_count = 32) =>
          /\ ph_call'.ret = 0
          /\ ph_call'.alerts = <<"unexpected_message">>
          /\ KeysUnchanged
          /\ NoAckQueued
     /\ ku_run_rotated' <= 32]_vars

\* C1 witness: the 33rd consecutive KeyUpdate was rejected after 32 rotated.
C1_Witness ==
  /\ ph_call.op = "post_handshake"
  /\ ph_call.message_type = "key_update"
  /\ ph_call.ret = 0
  /\ ph_call.alerts = <<"unexpected_message">>
  /\ ku_run = 33
  /\ ku_run_rotated = 32
  /\ read_key_gen = 32

\* C2 (as stated): tls13_receive_key_update queues an acknowledgement and
\* rotates the write key if and only if the code is 'requested' and the
\* pending flag is clear; at most one unflushed acknowledgement is queued and
\* write-key rotations always equal the acknowledgements queued.
C2_Original ==
  [][/\ ReceiveStep =>
          /\ (AckQueued /\ write_key_gen' = write_key_gen + 1)
               <=> (ph_call'.body = <<1>> /\ ~key_update_pending)
          /\ (ph_call'.body = <<1>> /\ key_update_pending) =>
               (read_key_gen' = read_key_gen + 1 /\ write_key_gen' = write_key_gen)
     /\ UnflushedAcks' <= 1
     /\ write_key_gen' = acks_queued']_vars

\* C2 (amended): an acknowledgement is queued only if the code is 'requested'
\* and the pending flag is clear, and the write key is rotated only after the
\* acknowledgement was queued; a call that succeeds has queued the
\* acknowledgement and rotated the write key exactly in that case, and a
\* successful 'requested' KeyUpdate with the flag set rotates only the read
\* key. At most one unflushed acknowledgement is ever queued; write-key
\* rotations equal the acknowledgements queued until a call fails, and then
\* differ from them by at most the one acknowledgement queued by that call.
C2_AckOncePerFlush ==
  [][/\ ReceiveStep =>
          /\ acks_queued' # acks_queued =>
               (AckQueued /\ ph_call'.body = <<1>> /\ ~key_update_pending)
          /\ write_key_gen' # write_key_gen =>
               (AckQueued /\ write_key_gen' = write_key_gen + 1)
          /\ ph_call'.ret = 1 =>
               /\ (AckQueued /\ write_key_gen' = write_key_gen + 1)
                    <=> (ph_call'.body = <<1>> /\ ~key_update_pending)
               /\ (ph_call'.body = <<1>> /\ key_update_pending) =>
                    /\ read_key_gen' = read_key_gen + 1
                    /\ write_key_gen' = write_key_gen
                    /\ NoAckQueued
               /\ read_key_gen' = read_key_gen + 1
     /\ (DispatchStep /\ ~ReceiveStep) => (NoAckQueued /\ KeysUnchanged)
     /\ UnflushedAcks' <= 1
     /\ ph_call'.op = "flush" => (flight' = <<>> /\ ~key_update_pending')
     /\ IF ph_call'.op = "post_handshake" /\ ph_call'.ret = 0
          THEN acks_queued' - write_key_gen' \in {0, 1}
          ELSE write_key_gen' = acks_queued']_vars

\* C2 witness: after an acknowledgement, a flush and a second acknowledgement,
\* a further 'requested' KeyUpdate arrived with the flag set and was accepted
\* without an acknowledgement.
C2_Witness ==
  /\ ph_call.op = "post_handshake"
  /\ ph_call.body = <<1>>
  /\ ph_call.ret = 1
  /\ ~ph_call.acked
  /\ key_update_pending
  /\ n_flushes = 1
  /\ acks_queued = 2
  /\ write_key_gen = 2
  /\ read_key_gen = 3
  /\ UnflushedAcks = 1

\* C9: tls13_receive_key_update accepts a body only if it is exactly one byte
\* holding 0 (not-requested) or 1 (requested); any other body fails with a
\* decode_error alert, rotates no key, queues no acknowledgement and leaves
\* the pending flag as it was.
C9_KeyUpdateBody ==
  [][ReceiveStep =>
       LET body == ph_call'.body
           well_formed == Len(body) = 1 /\ body[1] \in {0, 1}
       IN
       /\ ph_call'.ret = 1 => well_formed
       /\ ~well_formed =>
            /\ ph_call'.ret = 0
            /\ ph_call'.alerts = <<"decode_error">>
            /\ KeysUnchanged
            /\ NoAckQueued
            /\ key_update_pending' = key_update_pending]_vars

\* C9 witness: a KeyUpdate with the undefined code 2 reached
\* tls13_receive_key_update while an acknowledgement was pending, and failed
\* with decode_error.
C9_Witness ==
  /\ ph_call.op = "post_handshake"
  /\ ph_call.message_type = "key_update"
  /\ ph_call.body = <<2>>
  /\ ph_call.ret = 0
  /\ ph_call.alerts = <<"decode_error">>
  /\ key_update_count = 2
  /\ key_update_pending
  /\ read_key_gen = 1

(***************************************************************************)
(* Properties of the handshake driver (checked under SpecDrv).             *)
(***************************************************************************)
\* A step in which the stage function is invoked.
StageStep == script_idx' = script_idx + 1
\* A step in which the driver returns to its caller.
ReturnStep == drv_pc # "idle" /\ drv_pc' = "idle"
\* A step in which the transport answered not-ready.
NotReadyStep == n_not_ready' = n_not_ready + 1
NoTransportNoStage ==
  trace' = trace /\ script_idx' = script_idx /\ n_not_ready' = n_not_ready
LastOf(seq) == IF seq = <<>> THEN "none" ELSE seq[Len(seq)]

\* C4: after the stage function returns Error the driver returns -1 at once,
\* without resolving the Error state (no SSL_R_SSL_HANDSHAKE_FAILURE is
\* queued, nothing is asked of the transport); after Ok it returns 1 with the
\* wait state Ok; after any other result it does not return but resolves the
\* new wait state. A success return without the early-return signal happens
\* only in a step in which the stage function returned Ok.
C4_StageResultDispatch ==
  [][/\ StageStep =>
          /\ hs_wait' = script[script_idx + 1]
          /\ trace' = Append(trace, "do_tls13_handshake")
          /\ n_not_ready' = n_not_ready
          /\ put_errors' = put_errors
          /\ hs_wait' = "ssl_hs_error" => (ReturnStep /\ drv_ret' = -1)
          /\ hs_wait' = "ssl_hs_ok" =>
               (ReturnStep /\ drv_ret' = 1 /\ out_early_return' = 0)
          /\ hs_wait' \notin {"ssl_hs_error", "ssl_hs_ok"} =>
               (drv_pc' = "resolve" /\ drv_ret' = drv_ret)
     /\ (ReturnStep /\ drv_ret' = 1 /\ out_early_return' = 0) =>
          (StageStep /\ hs_wait' = "ssl_hs_ok")]_vars

\* C4 witness: the stage function returned Flush, the driver looped and
\* flushed, the stage function then returned Error and the driver returned
\* -1 without queueing an error of its own.
C4_Witness ==
  /\ script_idx = 2
  /\ script[1] = "ssl_hs_flush"
  /\ script[2] = "ssl_hs_error"
  /\ trace = <<"do_tls13_handshake", "flush_flight", "do_tls13_handshake">>
  /\ hs_wait = "ssl_hs_error"
  /\ drv_pc = "idle"
  /\ drv_ret = -1
  /\ put_errors = 0

\* C5: the stage function is invoked only after the transport reported the
\* pending condition ready (Flush: a flush; ReadMessage: a message read, which
\* for FlushAndReadMessage follows the flush and expect_flight, the wait state
\* being ReadMessage in between; ReadChangeCipherSpec: a change-cipher-spec
\* read). A not-ready answer makes the driver return that answer without
\* invoking the stage function, the wait state it was probing left in place.
C5_TransportBeforeStage ==
  [][/\ StageStep =>
          /\ drv_pc = "stage"
          /\ hs_wait \in {"ssl_hs_flush", "ssl_hs_read_message",
                          "ssl_hs_read_change_cipher_spec", "ssl_hs_ok"}
          /\ hs_wait = "ssl_hs_flush" => LastOf(trace) = "flush_flight"
          /\ hs_wait = "ssl_hs_read_message" => LastOf(trace) = "ssl_get_message"
          /\ hs_wait = "ssl_hs_read_change_cipher_spec" =>
               LastOf(trace) = "read_change_cipher_spec"
          /\ hs_wait = "ssl_hs_ok" =>
               LastOf(trace) \in {"none", "do_tls13_handshake"}
     /\ (drv_pc = "resolve" /\ hs_wait = "ssl_hs_flush_and_read_message") =>
          \/ NotReadyStep
          \/ /\ trace' = trace \o <<"flush_flight", "expect_flight">>
             /\ hs_wait' = "ssl_hs_read_message"
             /\ drv_pc' = "get_message"
             /\ script_idx' = script_idx
     /\ (drv_pc = "get_message"
           \/ (drv_pc = "resolve" /\ hs_wait = "ssl_hs_read_message")) =>
          /\ hs_wait = "ssl_hs_read_message"
          /\ \/ NotReadyStep
             \/ (trace' = Append(trace, "ssl_get_message") /\ drv_pc' = "stage")
     /\ NotReadyStep =>
          /\ ReturnStep
          /\ drv_ret' \in {0, -1}
          /\ hs_wait' = hs_wait
          /\ trace' = trace
          /\ script_idx' = script_idx]_vars

\* C5 witness: in FlushAndReadMessage the flush was ready and the read was
\* not: the driver has returned with the wait state ReadMessage.
C5_Witness ==
  /\ script_idx = 1
  /\ script[1] = "ssl_hs_flush_and_read_message"
  /\ trace = <<"do_tls13_handshake", "flush_flight", "expect_flight">>
  /\ hs_wait = "ssl_hs_read_message"
  /\ drv_pc = "idle"
  /\ drv_ret \in {0, -1}
  /\ n_not_ready = 1

\* C6: resolving X509Lookup, ChannelIdLookup, PrivateKeyOperation,
\* PendingTicket or CertificateVerify, the driver returns -1 without invoking
\* the stage function or the transport, records the matching rwstate and
\* resets the wait state to Ok; and a driver that resolves Ok invokes the
\* stage function next, without asking the transport.
C6_LookupSuspends ==
  [][/\ (drv_pc = "resolve"
           /\ hs_wait \in {"ssl_hs_x509_lookup", "ssl_hs_channel_id_lookup",
                           "ssl_hs_private_key_operation",
                           "ssl_hs_pending_ticket",
                           "ssl_hs_certificate_verify"}) =>
          /\ ReturnStep
          /\ drv_ret' = -1
          /\ out_early_return' = 0
          /\ hs_wait' = "ssl_hs_ok"
          /\ NoTransportNoStage
          /\ hs_wait = "ssl_hs_x509_lookup" => rwstate' = "SSL_X509_LOOKUP"
          /\ hs_wait = "ssl_hs_channel_id_lookup" =>
               rwstate' = "SSL_CHANNEL_ID_LOOKUP"
          /\ hs_wait = "ssl_hs_private_key_operation" =>
               rwstate' = "SSL_PRIVATE_KEY_OPERATION"
          /\ hs_wait = "ssl_hs_pending_ticket" => rwstate' = "SSL_PENDING_TICKET"
          /\ hs_wait = "ssl_hs_certificate_verify" =>
               rwstate' = "SSL_CERTIFICATE_VERIFY"
     /\ (drv_pc = "resolve" /\ hs_wait = "ssl_hs_ok") =>
          (drv_pc' = "stage" /\ NoTransportNoStage /\ hs_wait' = hs_wait)
     /\ drv_pc = "stage" => StageStep]_vars

\* C6 witness: the driver suspended for a private key operation, was entered
\* again and invoked the stage function without touching the transport.
C6_Witness ==
  /\ script[1] = "ssl_hs_private_key_operation"
  /\ rwstate = "SSL_PRIVATE_KEY_OPERATION"
  /\ n_entries = 2
  /\ script_idx = 2
  /\ trace = <<"do_tls13_handshake", "do_tls13_handshake">>

\* The transport steps the driver takes to resolve a wait state when the
\* transport is always ready.
ReadySteps(wait) ==
  CASE wait = "ssl_hs_flush" -> <<"flush_flight">>
    [] wait = "ssl_hs_flush_and_read_message" ->
         <<"flush_flight", "expect_flight", "ssl_get_message">>
    [] wait = "ssl_hs_read_message" -> <<"ssl_get_message">>
    [] wait = "ssl_hs_read_change_cipher_spec" -> <<"read_change_cipher_spec">>
    [] OTHER -> <<>>

\* The wait state the k-th stage invocation finds resolved.
WaitBeforeStage(sc, k) == IF k = 1 THEN "ssl_hs_ok" ELSE sc[k - 1]

\* The trace of the always-ready schedule up to its k-th stage invocation.
RECURSIVE ReadyTrace(_, _)
ReadyTrace(sc, k) ==
  IF k = 0 THEN <<>>
  ELSE ReadyTrace(sc, k - 1) \o ReadySteps(WaitBeforeStage(sc, k))
         \o <<"do_tls13_handshake">>

IsPrefix(p, q) == Len(p) <= Len(q) /\ p = SubSeq(q, 1, Len(p))

\* C7: whatever not-ready answers the transport gave, the stage invocations
\* and the successful transport steps so far are those of the always-ready
\* schedule for the same stage results: the trace is the always-ready trace
\* up to the last stage invocation followed by a part of the steps resolving
\* the wait state that invocation returned, all of them once the stage
\* function is about to run; and a call that ends the handshake ends it with
\* the outcome and wait state the last stage result dictates.
C7_SuspendResumeTransparent ==
  LET done == ReadyTrace(script, script_idx)
      pending == ReadySteps(WaitBeforeStage(script, script_idx + 1))
  IN
  /\ IsPrefix(done, trace)
  /\ IsPrefix(trace, done \o pending)
  /\ drv_pc = "stage" => trace = done \o pending
  /\ (drv_pc = "idle" /\ n_entries > 0 /\ drv_ret = 1 /\ out_early_return = 0) =>
       (hs_wait = "ssl_hs_ok" /\ script[script_idx] = "ssl_hs_ok" /\ trace = done)
  /\ hs_wait = "ssl_hs_error" =>
       /\ script[script_idx] = "ssl_hs_error"
       /\ trace = done
       /\ drv_pc = "idle" => drv_ret = -1

\* C7 witness: a handshake that flushed and read a message and read a
\* change-cipher-spec, suspended twice on the way, has completed.
C7_Witness ==
  /\ script = <<"ssl_hs_flush_and_read_message",
                "ssl_hs_read_change_cipher_spec", "ssl_hs_ok">>
  /\ n_not_ready = 2
  /\ n_entries = 3
  /\ script_idx = 3
  /\ drv_pc = "idle"
  /\ drv_ret = 1
  /\ hs_wait = "ssl_hs_ok"

\* C8: once the wait state is Error it stays Error; every later driver call
\* returns -1 without invoking the stage function or the transport, and no
\* call returns success.
C8_ErrorIsTerminal ==
  [][hs_wait = "ssl_hs_error" =>
       /\ hs_wait' = "ssl_hs_error"
       /\ NoTransportNoStage
       /\ drv_pc' \in {"idle", "resolve"}
       /\ drv_ret' = -1
       /\ out_early_return' = 0]_vars

\* C8 witness: the driver was entered twice after the handshake failed and
\* returned -1 both times.
C8_Witness ==
  /\ hs_wait = "ssl_hs_error"
  /\ put_errors = 2
  /\ n_entries = 3
  /\ script_idx = 1
  /\ drv_pc = "idle"
  /\ drv_ret = -1

(***************************************************************************)
(* Properties of the message handlers (SpecRecv).                          *)
(***************************************************************************)
FailedCall == op_call.op # "none" /\ op_call.failed

\* The extension types that appear, well framed, in an extension block.
RECURSIVE ExtensionTypes(_)
ExtensionTypes(block) ==
  IF Len(block) < 4 \/ Len(block) < 4 + block[3] * 256 + block[4] THEN {}
  ELSE {block[1] * 256 + block[2]}
         \cup ExtensionTypes(Drop(block, 4 + block[3] * 256 + block[4]))

\* The extension blocks of the well-framed entries at the front of a list.
RECURSIVE EntryExtensionBlocks(_)
EntryBlockAt(list, at) ==
  IF Len(list) < at + 1 \/ Len(list) < at + 1 + list[at] * 256 + list[at + 1]
    THEN <<>>
    ELSE <<SubSeq(list, at + 2, at + 1 + list[at] * 256 + list[at + 1])>>
           \o EntryExtensionBlocks(
                Drop(list, at + 1 + list[at] * 256 + list[at + 1]))

EntryExtensionBlocks(list) ==
  IF Len(list) < 3 THEN <<>>
  ELSE EntryBlockAt(list, 4 + list[1] * 65536 + list[2] * 256 + list[3])

\* The bytes after the request context and the length of the list.
CertificateListBytes(msg) ==
  IF Len(msg) < 1 \/ Len(msg) < 4 + msg[1] THEN <<>>
  ELSE Drop(msg, 4 + msg[1])

\* The positions of the entries that carry an extension of a type other
\* than status_request and certificate_timestamp.
UnknownExtensionEntries(msg) ==
  {i \in DOMAIN EntryExtensionBlocks(CertificateListBytes(msg)) :
     ExtensionTypes(EntryExtensionBlocks(CertificateListBytes(msg))[i])
       \ CertExtTypes # {}}

\* C3 as stated: every failure return of a handler is preceded by exactly
\* one fatal alert sent by that handler. The code returns failure from
\* tls13_process_certificate_verify with no peer key, and from
\* tls13_process_finished when the verify data cannot be computed, without
\* sending any alert.
C3_Original == FailedCall => Len(op_call.alerts) = 1

\* C10: a Certificate message in which some entry, leaf or not, carries an
\* extension of a type other than status_request and certificate_timestamp
\* is never accepted: tls13_process_certificate returns failure and has sent
\* one fatal alert.
C10_UnknownExtensionRejected ==
  (/\ op_call.op = "tls13_process_certificate"
   /\ UnknownExtensionEntries(op_call.msg) # {})
    => /\ op_call.ret = 0
       /\ Len(op_call.alerts) = 1
       /\ recv_phase = 1

\* An unknown extension on the second entry, after a leaf that was accepted,
\* was answered with unsupported_extension.
C10_Witness ==
  /\ op_call.op = "tls13_process_certificate"
  /\ UnknownExtensionEntries(op_call.msg) = {2}
  /\ op_call.ret = 0
  /\ op_call.alerts = <<SSL_AD_UNSUPPORTED_EXTENSION>>

\* The contents of the first extension of type `type` in an extension block.
RECURSIVE ExtensionData(_, _)
ExtensionData(block, type) ==
  IF Len(block) < 4 \/ Len(block) < 4 + block[3] * 256 + block[4] THEN None
  ELSE IF block[1] * 256 + block[2] = type
    THEN Some(SubSeq(block, 5, 4 + block[3] * 256 + block[4]))
    ELSE ExtensionData(Drop(block, 4 + block[3] * 256 + block[4]), type)

\* The OCSP response and the SCT list the leaf entry of a message carries:
\* the response after the status type and its 24-bit length, and the whole
\* contents of the certificate_timestamp extension.
LeafValue(blocks, type, skip) ==
  IF blocks = <<>> \/ IsNull(ExtensionData(blocks[1], type)) THEN None
  ELSE Some(Drop(ExtensionData(blocks[1], type)[1], skip))

LeafOcspResponse(msg) ==
  LeafValue(EntryExtensionBlocks(CertificateListBytes(msg)),
            TLSEXT_TYPE_status_request, 4)

LeafSctList(msg) ==
  LeafValue(EntryExtensionBlocks(CertificateListBytes(msg)),
            TLSEXT_TYPE_certificate_timestamp, 0)

\* The entries, other than the leaf, that carry a status_request or a
\* certificate_timestamp extension.
LaterEntriesWith(msg, type) ==
  {i \in DOMAIN EntryExtensionBlocks(CertificateListBytes(msg)) :
     /\ i > 1
     /\ ~IsNull(ExtensionData(
                  EntryExtensionBlocks(CertificateListBytes(msg))[i], type))}

CertificateCall == op_call.op = "tls13_process_certificate"

\* C11: after tls13_process_certificate the session's OCSP response and SCT
\* list are either what they were before the call (absent) or the values
\* carried by the leaf entry, never a value from a later entry; after a
\* successful call they are exactly the leaf's values, whatever extensions
\* the later entries carry.
C11_OnlyLeafExtensionsStored ==
  CertificateCall =>
    /\ new_session.ocsp_response \in {None, LeafOcspResponse(op_call.msg)}
    /\ new_session.tlsext_signed_cert_timestamp_list
         \in {None, LeafSctList(op_call.msg)}
    /\ op_call.ret = 1 =>
         /\ new_session.ocsp_response = LeafOcspResponse(op_call.msg)
         /\ new_session.tlsext_signed_cert_timestamp_list
              = LeafSctList(op_call.msg)

\* A message accepted although its second entry carries a status_request
\* extension and its leaf carries none: the session has no OCSP response.
C11_Witness ==
  /\ CertificateCall
  /\ op_call.ret = 1
  /\ LaterEntriesWith(op_call.msg, TLSEXT_TYPE_status_request) = {2}
  /\ IsNull(LeafOcspResponse(op_call.msg))
  /\ IsNull(new_session.ocsp_response)

\* The well-formed Certificate message that carries no certificate.
ZeroCertificateMsg == CertificateMsg(<<>>, <<>>, <<>>)

ZeroCertificateCall == CertificateCall /\ op_call.msg = ZeroCertificateMsg

\* What C12 states of a call on the zero-certificate message.
ZeroCertificateOutcome ==
  IF op_call.allow_anonymous
    THEN /\ op_call.ret = 1
         /\ op_call.alerts = <<>>
         /\ new_session.verify_result = "X509_V_OK"
         /\ new_session.certs = None
    ELSE /\ op_call.ret = 0
         /\ op_call.alerts = <<SSL_AD_CERTIFICATE_REQUIRED>>

\* C12 as stated: on the zero-certificate message tls13_process_certificate
\* fails with certificate_required when anonymous peers are not allowed, and
\* otherwise succeeds with the verify result OK and a null chain. The call
\* also fails, with another alert, when the certificate stack cannot be
\* allocated or the session-cache commit fails.
C12_Original == ZeroCertificateCall => ZeroCertificateOutcome

\* C12 (amended): on the zero-certificate message, if the certificate stack
\* is allocated and the session-cache commit succeeds, the call fails with
\* certificate_required when anonymous peers are not allowed and otherwise
\* succeeds, with the verify result forced to OK and the chain stored as the
\* null marker; if the allocation fails the call fails with internal_error,
\* and if the commit fails it fails with decode_error, whatever
\* allow_anonymous is. The chain is never stored as an empty list.
C12_ZeroCertificates ==
  ZeroCertificateCall =>
    /\ new_session.certs = None
    /\ op_call.env \notin {"certs_alloc", "session_cache_objects"}
         => ZeroCertificateOutcome
    /\ op_call.env = "certs_alloc"
         => op_call.ret = 0 /\ op_call.alerts = <<SSL_AD_INTERNAL_ERROR>>
    /\ op_call.env = "session_cache_objects"
         => op_call.ret = 0 /\ op_call.alerts = <<SSL_AD_DECODE_ERROR>>

\* The zero-certificate message was accepted from an anonymous peer.
C12_Witness ==
  /\ ZeroCertificateCall
  /\ op_call.allow_anonymous
  /\ op_call.ret = 1
  /\ new_session.verify_result = "X509_V_OK"
  /\ new_session.certs = None

(***************************************************************************)
(* Properties of the certificate codec (SpecCodec).                        *)
(***************************************************************************)
\* The Certificate message the local endpoint builds from its configuration.
LocalCertificateMsg == tls13_add_certificate(hs, ssl_config, "ok").msgs[1].body

\* The peer's role and settings admit the extensions attached to the leaf of
\* `msg`: it is not a server (the local endpoint is) and has enabled them.
PeerAdmits(msg) ==
  /\ ~IsNull(LeafOcspResponse(msg))
       => server /\ peer.config.ocsp_stapling_enabled
  /\ ~IsNull(LeafSctList(msg))
       => server /\ peer.config.signed_cert_timestamps_enabled

\* The peer has processed the local message, built from a chain of at least
\* one certificate, and admits its extensions.
RoundTripCase(msg) ==
  /\ peer.round >= 1
  /\ ssl_has_certificate(ssl_config)
  /\ PeerAdmits(msg)

\* The first decoding has accepted the message and holds the local leaf and
\* its public key.
FirstDecodingFaithful ==
  /\ peer.first.ret = 1
  /\ ~IsNull(peer.first.certs)
  /\ peer.first.certs[1][1] = LeafBytes(ssl_config)
  /\ peer.first.peer_pubkey = hs.local_pubkey

\* The second decoding has accepted the re-encoded chain and holds the leaf
\* and public key of the first decoding.
SecondDecodingFaithful ==
  /\ peer.ret = 1
  /\ ~IsNull(peer.session.certs)
  /\ peer.session.certs[1][1] = peer.first.certs[1][1]
  /\ peer.hs.peer_pubkey = peer.first.peer_pubkey

\* The leaf and the attached extensions are such that a receiver can accept
\* them: the leaf has a public key that may sign, the OCSP response is not
\* empty and the SCT list is valid.
Decodable(msg) ==
  /\ ~IsNull(ssl_cert_parse_pubkey(LeafBytes(ssl_config)))
  /\ ssl_cert_check_digital_signature_key_usage(LeafBytes(ssl_config))
  /\ LeafOcspResponse(msg) # Some(<<>>)
  /\ IsNull(LeafSctList(msg)) \/ ssl_is_sct_list_valid(LeafSctList(msg)[1])

\* C13 as stated: the message tls13_add_certificate builds from any chain of
\* at least one non-empty certificate is accepted by a peer that admits the
\* attached extensions, with the same leaf and public key, and so is the
\* message built from the decoded chain.
C13_Original ==
  RoundTripCase(LocalCertificateMsg) =>
    /\ FirstDecodingFaithful
    /\ peer.round = 3 => SecondDecodingFaithful

\* C13 (amended): the message tls13_add_certificate builds from a chain of
\* at least one certificate is accepted by tls13_process_certificate, with
\* the same leaf bytes and public key, on a peer whose role and settings
\* admit the attached extensions, provided the leaf has a parsable public
\* key whose key usage allows signing, the attached OCSP response is not
\* empty, the attached SCT list is valid and no allocation or session-cache
\* commit fails in the peer; the message built from a decoded chain is then
\* accepted again, under the same proviso, with the same leaf and key.
C13_CertificateRoundTrip ==
  /\ (RoundTripCase(LocalCertificateMsg) /\ Decodable(LocalCertificateMsg)
        /\ peer.first.env = "ok")
       => FirstDecodingFaithful
  /\ (peer.round = 3 /\ ~IsNull(peer.first.certs) /\ peer.env = "ok")
       => SecondDecodingFaithful

\* A chain of two certificates with both extensions attached went through
\* both decodings.
C13_Witness ==
  /\ peer.round = 3
  /\ ssl_has_certificate(ssl_config)
  /\ Len(ssl_config.chain[1]) = 2
  /\ ~IsNull(LeafOcspResponse(LocalCertificateMsg))
  /\ ~IsNull(LeafSctList(LocalCertificateMsg))
  /\ FirstDecodingFaithful
  /\ SecondDecodingFaithful

(***************************************************************************)
(* Properties of the Finished verification (SpecRecv).                     *)
(***************************************************************************)
FinishedCall == op_call.op = "tls13_process_finished"

\* The verify data a Finished message is compared with: the saved client
\* Finished, or the MAC of the peer's side over the transcript.
ExpectedVerifyData ==
  IF op_call.use_saved_value
    THEN Take(hs.expected_client_finished, hs.hash_len)
    ELSE tls13_finished_mac(hs, ~server)

\* C14 as stated: tls13_process_finished succeeds if and only if the
\* received body has the length of the expected verify data and equals it
\* byte for byte, with the computed and with the saved expected value, and
\* every failure sends decrypt_error. The code fails without any alert, and
\* whatever the body is, when the verify data cannot be computed.
C14_Original ==
  FinishedCall =>
    /\ op_call.ret = 1 <=> op_call.msg = ExpectedVerifyData
    /\ op_call.ret = 0 => op_call.alerts = <<SSL_AD_DECRYPT_ERROR>>

(***************************************************************************)
(* Properties of tls13_process_certificate as a step (SpecRecv).           *)
(***************************************************************************)
\* A step in which tls13_process_certificate handles a message.
CertificateStep ==
  /\ recv_phase = 0
  /\ recv_phase' = 1
  /\ op_call'.op = "tls13_process_certificate"

\* The call left the peer public key and the session's chain as they were.
KeyAndChainUnchanged ==
  /\ hs'.peer_pubkey = hs.peer_pubkey
  /\ new_session'.certs = new_session.certs

\* C15 as stated: whenever tls13_process_certificate returns failure, the
\* peer public key of the handshake and the chain of the session are what
\* they were before the call. The code installs both before the
\* session-cache commit and the anonymous-peer test, so a failure of either
\* returns with the new key and chain in place.
C15_Original ==
  [][(CertificateStep /\ op_call'.ret = 0) => KeyAndChainUnchanged]_vars

(***************************************************************************)
(* Properties of the dispatch of other messages (SpecKU).                  *)
(***************************************************************************)
\* A step that dispatches a message whose type is not KeyUpdate.
OtherMessageStep ==
  DispatchStep /\ ph_call'.message_type # SSL3_MT_KEY_UPDATE

\* The call is the one the ticket handler is consulted on.
TicketDelegated ==
  ph_call'.message_type = SSL3_MT_NEW_SESSION_TICKET /\ ~server

\* C16: a message whose type is not KeyUpdate resets the key-update counter
\* to zero whether or not it is then rejected; a new-session-ticket on a
\* non-server endpoint returns what the ticket handler returns, with the
\* handler's alerts only; every other non-KeyUpdate case fails with
\* unexpected_message; a KeyUpdate message never resets the counter, it
\* increases it.
C16_OtherMessagesResetCounter ==
  [][/\ OtherMessageStep =>
          /\ key_update_count' = 0
          /\ KeysUnchanged /\ NoAckQueued
          /\ IF TicketDelegated
               THEN /\ ph_call'.ticket # None
                    /\ ph_call'.ret = ph_call'.ticket[1].ret
                    /\ ph_call'.alerts = ph_call'.ticket[1].alerts
               ELSE /\ ph_call'.ticket = None
                    /\ ph_call'.ret = 0
                    /\ ph_call'.alerts = <<SSL_AD_UNEXPECTED_MESSAGE>>
     /\ KeyUpdateStep =>
          /\ key_update_count' = key_update_count + 1
          /\ ph_call'.ticket = None
    ]_vars

\* A run of KeyUpdates was ended by a rejected message: the counter is back
\* at zero although the call failed.
C16_Witness ==
  /\ ph_call.op = "post_handshake"
  /\ ph_call.message_type = SSL3_MT_FINISHED
  /\ ph_call.ret = 0
  /\ ph_call.alerts = <<SSL_AD_UNEXPECTED_MESSAGE>>
  /\ key_update_count = 0
  /\ read_key_gen > 0

(***************************************************************************)
(* Properties of the early-data wait states (SpecDrv).                     *)
(***************************************************************************)
\* The driver is about to resolve the wait state ReadEndOfEarlyData.
AtReadEndOfEarlyData ==
  drv_pc = "resolve" /\ hs_wait = ssl_hs_read_end_of_early_data

\* The call returned success: either the early return or the completion of
\* the handshake, told apart by the signal and by the wait state.
SuccessIsEarlyOrComplete ==
  (drv_pc = "idle" /\ n_entries > 0 /\ drv_ret = 1) =>
     \/ out_early_return = 1 /\ hs_wait = ssl_hs_read_end_of_early_data
     \/ out_early_return = 0 /\ hs_wait = ssl_hs_ok

\* C17: resolving ReadEndOfEarlyData while early data is still accepted
\* returns 1 with the early-return signal set, the stage function not called
\* and the wait state still ReadEndOfEarlyData; otherwise the wait state
\* becomes Ok and the stage function is the next thing the same call does.
\* A successful return is either such an early return or a completion with
\* the wait state Ok and the signal clear.
C17_ReadEndOfEarlyData ==
  /\ []SuccessIsEarlyOrComplete
  /\ [][AtReadEndOfEarlyData =>
          IF can_early_read
            THEN /\ drv_pc' = "idle" /\ drv_ret' = 1
                 /\ out_early_return' = 1
                 /\ hs_wait' = ssl_hs_read_end_of_early_data
                 /\ trace' = trace /\ script_idx' = script_idx
            ELSE /\ hs_wait' = ssl_hs_ok
                 /\ drv_pc' = "stage"
                 /\ out_early_return' = 0
                 /\ n_entries' = n_entries
                 /\ script_idx < MaxStages
       ]_vars
  /\ [][drv_pc = "stage" =>
          /\ StageStep
          /\ n_entries' = n_entries
          /\ trace' = Append(trace, "do_tls13_handshake")]_vars

\* The driver has returned early: success with the signal set, while the
\* handshake still waits for the end of the early data.
C17_Witness ==
  /\ drv_pc = "idle"
  /\ n_entries > 0
  /\ drv_ret = 1
  /\ out_early_return = 1
  /\ hs_wait = ssl_hs_read_end_of_early_data
  /\ can_early_read
  /\ Len(trace) > 0

\* The driver is about to resolve the wait state EarlyDataRejected.
AtEarlyDataRejected ==
  drv_pc = "resolve" /\ hs_wait = ssl_hs_early_data_rejected

\* The call that found the early data rejected has returned.
RejectionSurfaced ==
  /\ drv_ret = -1
  /\ rwstate = "SSL_EARLY_DATA_REJECTED"
  /\ ~can_early_write

\* C18: resolving EarlyDataRejected disables early writes and suspends with
\* the rejection outcome, without calling the stage function and without
\* touching the wait state; no step of the driver turns early writes back
\* on; and as the driver never leaves EarlyDataRejected by itself, every
\* later entry ends in the same suspension.
C18_EarlyDataRejected ==
  /\ [][AtEarlyDataRejected =>
          /\ ~can_early_write'
          /\ rwstate' = "SSL_EARLY_DATA_REJECTED"
          /\ drv_pc' = "idle" /\ drv_ret' = -1
          /\ hs_wait' = ssl_hs_early_data_rejected
          /\ trace' = trace /\ script_idx' = script_idx
       ]_vars
  /\ [][can_early_write' => can_early_write]_vars
  /\ [][hs_wait = ssl_hs_early_data_rejected /\ drv_pc # "stage" =>
          hs_wait' = ssl_hs_early_data_rejected]_vars
  /\ []((drv_pc = "idle" /\ hs_wait = ssl_hs_early_data_rejected) =>
          RejectionSurfaced)

\* The stage function rejected the early data in the first entry, and the
\* driver has been entered twice more since, suspending each time.
C18_Witness ==
  /\ drv_pc = "idle"
  /\ n_entries = 3
  /\ script_idx = 1
  /\ script[1] = ssl_hs_early_data_rejected
  /\ hs_wait = ssl_hs_early_data_rejected
  /\ RejectionSurfaced

(***************************************************************************)
(* Properties of the framing of the Certificate message (SpecRecv).        *)
(***************************************************************************)
\* The message declares a request context that is not empty.
RequestContextNonEmpty(msg) == Len(msg) >= 1 /\ msg[1] > 0

\* The length the message declares for its certificate list.
DeclaredListLength(msg) == msg[2] * 65536 + msg[3] * 256 + msg[4]

\* An empty request context and a whole list, followed by more bytes.
BytesAfterList(msg) ==
  /\ Len(msg) >= 4
  /\ msg[1] = 0
  /\ Len(msg) > 4 + DeclaredListLength(msg)

\* An empty request context and a list that fills the rest of the message.
OuterFramingGood(msg) ==
  /\ Len(msg) >= 4
  /\ msg[1] = 0
  /\ Len(msg) = 4 + DeclaredListLength(msg)

\* The walk over the entries of a list from the byte offset `at`: whether an
\* entry is met whose certificate prefix or extension-block prefix overruns
\* the list or whose certificate is empty, and the offset where that entry
\* (or, without one, the list) ends the run of well-framed entries.
RECURSIVE EntryWalk(_, _)
EntryWalkBlock(list, at, n, m) ==
  IF Len(list) < at + 5 + n + m \/ n = 0
    THEN [bad |-> TRUE, before |-> at]
    ELSE EntryWalk(list, at + 5 + n + m)

EntryWalkBody(list, at, n) ==
  IF Len(list) < at + 5 + n
    THEN [bad |-> TRUE, before |-> at]
    ELSE EntryWalkBlock(list, at, n,
                        list[at + 4 + n] * 256 + list[at + 5 + n])

EntryWalk(list, at) ==
  IF Len(list) = at THEN [bad |-> FALSE, before |-> at]
  ELSE IF Len(list) < at + 3 THEN [bad |-> TRUE, before |-> at]
  ELSE EntryWalkBody(list, at,
         list[at + 1] * 65536 + list[at + 2] * 256 + list[at + 3])

\* The list of a well-framed message holds a malformed entry.
MalformedEntry(msg) ==
  OuterFramingGood(msg) /\ EntryWalk(Drop(msg, 4), 0).bad

\* The entries of the list that precede its first malformed entry.
EarlierEntries(msg) ==
  Take(Drop(msg, 4), EntryWalk(Drop(msg, 4), 0).before)

\* The outer structure of the message is malformed in one of the ways C19
\* names.
OuterStructureMalformed(msg) ==
  \/ RequestContextNonEmpty(msg)
  \/ BytesAfterList(msg)
  \/ MalformedEntry(msg)

\* The loop of tls13_process_certificate, run in the circumstances of the
\* call on the entries that precede the malformed one, rejects none of them.
EarlierEntriesAccepted(msg, env) ==
  IsNull(CertLoop(EarlierEntries(msg),
                  [certs |-> <<>>, pkey |-> None, session |-> new_session,
                   alert |-> None],
                  [server |-> server,
                   ocsp_stapling_enabled |-> ssl_config.ocsp_stapling_enabled,
                   signed_cert_timestamps_enabled |->
                     ssl_config.signed_cert_timestamps_enabled,
                   retain_sha256 |->
                     server /\ ssl_config.retain_only_sha256_of_client_certs,
                   env |-> env]).alert)

\* C19 as stated: on a message whose outer structure is malformed (request
\* context not empty, bytes after the list, an entry whose length prefixes
\* overrun the list, an entry with an empty certificate)
\* tls13_process_certificate fails with decode_error and leaves the chain
\* and the peer key unchanged. The code answers internal_error when the
\* certificate stack cannot be allocated, and the alert of an earlier entry
\* when one is rejected before the malformed entry is reached.
C19_Original ==
  [][(CertificateStep /\ OuterStructureMalformed(op_call'.msg)) =>
       /\ op_call'.ret = 0
       /\ op_call'.alerts = <<SSL_AD_DECODE_ERROR>>
       /\ KeyAndChainUnchanged]_vars

\* C19, amended: on such a message the call always fails and leaves the
\* chain and the peer key unchanged; the alert is decode_error when the
\* request context is not empty or bytes follow the list, and, for a
\* malformed entry, when the certificate stack was allocated and the loop
\* rejected none of the entries before it.
C19_MalformedStructure ==
  [][(CertificateStep /\ OuterStructureMalformed(op_call'.msg)) =>
       /\ op_call'.ret = 0
       /\ KeyAndChainUnchanged
       /\ (\/ ~MalformedEntry(op_call'.msg)
           \/ /\ op_call'.env # "certs_alloc"
              /\ EarlierEntriesAccepted(op_call'.msg, op_call'.env))
            => op_call'.alerts = <<SSL_AD_DECODE_ERROR>>]_vars

\* A message whose second entry has an empty certificate, after a leaf that
\* was accepted, was answered with decode_error; nothing was installed.
C19_Witness ==
  /\ CertificateCall
  /\ op_call.msg = CertificateMsg(<<>>, CertEntry(<<11, 1>>, <<>>)
                                         \o CertEntry(<<>>, <<>>), <<>>)
  /\ op_call.env = "ok"
  /\ op_call.ret = 0
  /\ op_call.alerts = <<SSL_AD_DECODE_ERROR>>
  /\ IsNull(hs.peer_pubkey)
  /\ IsNull(new_session.certs)

(***************************************************************************)
(* Properties of the status_request and certificate_timestamp extensions   *)
(* (SpecRecv).                                                             *)
(***************************************************************************)
\* The extension blocks of the entries of a message.
BlocksOf(msg) == EntryExtensionBlocks(CertificateListBytes(msg))

\* The endpoint admits a status_request, a certificate_timestamp extension.
StatusRequestAdmitted == ~server /\ ssl_config.ocsp_stapling_enabled
SctAdmitted == ~server /\ ssl_config.signed_cert_timestamps_enabled

\* The OCSP type byte, then a 24-bit length and a non-empty response of that
\* length, and nothing more.
StatusPayloadGood(d) ==
  /\ Len(d) > 4
  /\ d[1] = TLSEXT_STATUSTYPE_ocsp
  /\ Len(d) = 4 + d[2] * 65536 + d[3] * 256 + d[4]

\* The entries that carry the extension `type`.
EntriesWith(msg, type) ==
  {i \in DOMAIN BlocksOf(msg) : ~IsNull(ExtensionData(BlocksOf(msg)[i], type))}

\* The entries whose extension `type` has contents that do not satisfy good.
EntriesWithBad(msg, type, good(_)) ==
  {i \in EntriesWith(msg, type) :
     ~good(ExtensionData(BlocksOf(msg)[i], type)[1])}

\* C20 as stated: a message with a status_request extension on some entry is
\* answered with unsupported_extension unless the endpoint is a non-server
\* with OCSP stapling enabled, and then with decode_error unless the payload
\* is well formed; likewise for certificate_timestamp with SCT processing
\* and the validity of the list. The code reaches these tests only after
\* the stack and buffer allocations, the leaf checks, the earlier entries
\* and, for the SCT, the status_request of the same entry, each of which
\* may already have ended the call with another alert.
C20_Original ==
  CertificateCall =>
    /\ (EntriesWith(op_call.msg, TLSEXT_TYPE_status_request) # {}
          /\ ~StatusRequestAdmitted)
         => (op_call.ret = 0 /\ op_call.alerts = <<SSL_AD_UNSUPPORTED_EXTENSION>>)
    /\ (EntriesWith(op_call.msg, TLSEXT_TYPE_certificate_timestamp) # {}
          /\ ~SctAdmitted)
         => (op_call.ret = 0 /\ op_call.alerts = <<SSL_AD_UNSUPPORTED_EXTENSION>>)
    /\ (EntriesWithBad(op_call.msg, TLSEXT_TYPE_status_request,
                       StatusPayloadGood) # {}
          /\ StatusRequestAdmitted)
         => (op_call.ret = 0 /\ op_call.alerts = <<SSL_AD_DECODE_ERROR>>)
    /\ (EntriesWithBad(op_call.msg, TLSEXT_TYPE_certificate_timestamp,
                       ssl_is_sct_list_valid) # {}
          /\ SctAdmitted)
         => (op_call.ret = 0 /\ op_call.alerts = <<SSL_AD_DECODE_ERROR>>)

\* What is wrong, if anything, with the status_request and with the
\* certificate_timestamp extension of an entry: the alert C20 assigns.
StatusDefect(sr) ==
  IF IsNull(sr) THEN None
  ELSE IF ~StatusRequestAdmitted THEN Some(SSL_AD_UNSUPPORTED_EXTENSION)
  ELSE IF ~StatusPayloadGood(sr[1]) THEN Some(SSL_AD_DECODE_ERROR)
  ELSE None

SctDefect(sct) ==
  IF IsNull(sct) THEN None
  ELSE IF ~SctAdmitted THEN Some(SSL_AD_UNSUPPORTED_EXTENSION)
  ELSE IF ~ssl_is_sct_list_valid(sct[1]) THEN Some(SSL_AD_DECODE_ERROR)
  ELSE None

EntryDefect(block) ==
  IF ~IsNull(StatusDefect(ExtensionData(block, TLSEXT_TYPE_status_request)))
    THEN StatusDefect(ExtensionData(block, TLSEXT_TYPE_status_request))
    ELSE SctDefect(ExtensionData(block, TLSEXT_TYPE_certificate_timestamp))

\* The first defect of the message: entries in order, and within an entry
\* the status_request before the certificate_timestamp.
RECURSIVE FirstDefect(_, _)
FirstDefect(blocks, i) ==
  IF i > Len(blocks) THEN None
  ELSE IF ~IsNull(EntryDefect(blocks[i])) THEN EntryDefect(blocks[i])
  ELSE FirstDefect(blocks, i + 1)

\* The encoding of an extension that may be absent.
ExtensionIfPresent(type, data) ==
  IF IsNull(data) THEN <<>> ELSE Extension(type, data[1])

\* The block holds at most one status_request and one
\* certificate_timestamp extension, and nothing else.
BlockClean(block) ==
  block \in
    {ExtensionIfPresent(TLSEXT_TYPE_status_request,
                        ExtensionData(block, TLSEXT_TYPE_status_request))
       \o ExtensionIfPresent(TLSEXT_TYPE_certificate_timestamp,
                             ExtensionData(block, TLSEXT_TYPE_certificate_timestamp)),
     ExtensionIfPresent(TLSEXT_TYPE_certificate_timestamp,
                        ExtensionData(block, TLSEXT_TYPE_certificate_timestamp))
       \o ExtensionIfPresent(TLSEXT_TYPE_status_request,
                             ExtensionData(block, TLSEXT_TYPE_status_request))}

\* The certificate of the first entry of a list.
FirstCertificate(list) ==
  SubSeq(list, 4, 3 + list[1] * 65536 + list[2] * 256 + list[3])

\* Nothing but the two extensions can make the call fail: no failure point
\* fails, the message is well framed with at least one entry, the leaf
\* certificate is acceptable, and every extension block is clean.
OnlyExtensionsAtStake(msg, env) ==
  /\ env = "ok"
  /\ OuterFramingGood(msg)
  /\ Len(msg) > 4
  /\ ~EntryWalk(Drop(msg, 4), 0).bad
  /\ ~IsNull(ssl_cert_parse_pubkey(FirstCertificate(Drop(msg, 4))))
  /\ ssl_cert_check_digital_signature_key_usage(FirstCertificate(Drop(msg, 4)))
  /\ \A i \in DOMAIN BlocksOf(msg) : BlockClean(BlocksOf(msg)[i])

\* C20, amended: a message is accepted only if each status_request
\* extension it carries, on any entry, meets a non-server endpoint with OCSP
\* stapling enabled and has a well-formed payload, and each
\* certificate_timestamp extension meets a non-server endpoint with SCT
\* processing enabled and holds a valid list. When nothing else can make
\* the call fail, the call fails exactly if some extension does not meet
\* these conditions, and the alert is that of the first one in processing
\* order: unsupported_extension if it is not admitted, decode_error if its
\* payload is malformed.
C20_CertificateExtensions ==
  CertificateCall =>
    /\ op_call.ret = 1 =>
         \A i \in DOMAIN BlocksOf(op_call.msg) :
           /\ IsNull(StatusDefect(ExtensionData(BlocksOf(op_call.msg)[i],
                                                TLSEXT_TYPE_status_request)))
           /\ IsNull(SctDefect(ExtensionData(BlocksOf(op_call.msg)[i],
                                             TLSEXT_TYPE_certificate_timestamp)))
    /\ OnlyExtensionsAtStake(op_call.msg, op_call.env) =>
         IF IsNull(FirstDefect(BlocksOf(op_call.msg), 1))
           THEN op_call.ret = 1
           ELSE /\ op_call.ret = 0
                /\ op_call.alerts = <<FirstDefect(BlocksOf(op_call.msg), 1)[1]>>

\* A non-server endpoint with OCSP stapling enabled and SCT processing
\* disabled received a leaf with both extensions: the status_request was
\* admitted and stored, the certificate_timestamp answered with
\* unsupported_extension.
C20_Witness ==
  /\ CertificateCall
  /\ op_call.msg = CertificateMsg(<<>>,
                      CertEntry(<<11, 1>>,
                                StatusRequestExt(<<41>>) \o SctExt(<<51>>)),
                      <<>>)
  /\ OnlyExtensionsAtStake(op_call.msg, op_call.env)
  /\ StatusRequestAdmitted
  /\ ~SctAdmitted
  /\ op_call.ret = 0
  /\ op_call.alerts = <<SSL_AD_UNSUPPORTED_EXTENSION>>
  /\ new_session.ocsp_response = Some(<<41>>)

(***************************************************************************)
(* Properties of tls13_add_certificate (SpecSend).                         *)
(***************************************************************************)
\* The certificates of the well-framed entries of a list, in list order.
RECURSIVE EntryCertificates(_)
EntryCertificateAt(list, n) ==
  IF Len(list) < 5 + n
       \/ Len(list) < 5 + n + list[4 + n] * 256 + list[5 + n]
    THEN <<>>
    ELSE <<SubSeq(list, 4, 3 + n)>>
           \o EntryCertificates(
                Drop(list, 5 + n + list[4 + n] * 256 + list[5 + n]))

EntryCertificates(list) ==
  IF Len(list) < 3 THEN <<>>
  ELSE EntryCertificateAt(list, list[1] * 65536 + list[2] * 256 + list[3])

AddCertificateCall == op_call.op = "tls13_add_certificate"

\* The SCT list and the OCSP response the local endpoint attaches: those it
\* holds, if the peer asked for them.
AttachedSctList ==
  IF hs.scts_requested THEN ssl_config.signed_cert_timestamp_list ELSE None

AttachedOcspResponse ==
  IF hs.ocsp_stapling_requested THEN ssl_config.ocsp_response ELSE None

\* The leaf block holds exactly the attached extensions: the SCT list as the
\* whole contents of certificate_timestamp, the OCSP response after the
\* status type and its 24-bit length in status_request.
LeafBlockAsConfigured(block) ==
  /\ BlockClean(block)
  /\ ExtensionData(block, TLSEXT_TYPE_certificate_timestamp) = AttachedSctList
  /\ IF IsNull(AttachedOcspResponse)
       THEN IsNull(ExtensionData(block, TLSEXT_TYPE_status_request))
       ELSE /\ ~IsNull(ExtensionData(block, TLSEXT_TYPE_status_request))
            /\ StatusPayloadGood(
                 ExtensionData(block, TLSEXT_TYPE_status_request)[1])
            /\ Drop(ExtensionData(block, TLSEXT_TYPE_status_request)[1], 4)
                 = AttachedOcspResponse[1]

\* The emitted body: an empty request context, a list that fills the rest,
\* and in it nothing without a certificate, else the chain in its order
\* with the extensions on the leaf only.
BodyAsConfigured(body) ==
  /\ OuterFramingGood(body)
  /\ ~EntryWalk(Drop(body, 4), 0).bad
  /\ IF ~ssl_has_certificate(ssl_config)
       THEN Len(body) = 4
       ELSE /\ EntryCertificates(Drop(body, 4)) = ssl_config.chain[1]
            /\ Len(BlocksOf(body)) = Len(ssl_config.chain[1])
            /\ LeafBlockAsConfigured(BlocksOf(body)[1])
            /\ \A i \in 2..Len(BlocksOf(body)) : BlocksOf(body)[i] = <<>>

\* C21: a successful tls13_add_certificate queues one Certificate message
\* with an empty request context; without a local certificate its list is
\* empty; otherwise the list holds the chain in chain order, the leaf first,
\* the leaf entry carrying the SCT extension exactly if SCTs were requested
\* and a list is held, the OCSP extension exactly if stapling was requested
\* and a response is held, and every later entry an empty extension block.
\* A failed call queues nothing.
C21_AddCertificate ==
  AddCertificateCall =>
    IF op_call.ret = 1
      THEN /\ Len(op_call.msgs) = 1
           /\ op_call.msgs[1].type = "certificate"
           /\ BodyAsConfigured(op_call.msgs[1].body)
      ELSE op_call.msgs = <<>>

\* A chain of two certificates was sent, the SCT list attached to the leaf
\* and the OCSP response, held but not requested, left out.
C21_Witness ==
  /\ AddCertificateCall
  /\ op_call.ret = 1
  /\ Len(BlocksOf(op_call.msgs[1].body)) = 2
  /\ ~IsNull(AttachedSctList)
  /\ ~hs.ocsp_stapling_requested
  /\ ~IsNull(ssl_config.ocsp_response)
  /\ IsNull(ExtensionData(BlocksOf(op_call.msgs[1].body)[1],
                          TLSEXT_TYPE_status_request))

(***************************************************************************)
(* Properties of tls13_get_cert_verify_signature_input (SpecInput).        *)
(***************************************************************************)
SignatureInputCall == op_call.op = "tls13_get_cert_verify_signature_input"

\* The three labels, and the context string of each.
DefinedContexts ==
  {ssl_cert_verify_server, ssl_cert_verify_client, ssl_cert_verify_channel_id}

ContextStringOf(label) ==
  CASE label = ssl_cert_verify_server -> kContextServer
    [] label = ssl_cert_verify_client -> kContextClient
    [] label = ssl_cert_verify_channel_id -> kContextChannelId

\* 64 bytes 0x20, the context string with its terminating zero byte, the
\* transcript hash, and nothing else.
InputLaidOut(out, context, hash) ==
  /\ Len(out) = 64 + Len(context) + Len(hash)
  /\ \A i \in 1..64 : out[i] = 32
  /\ SubSeq(out, 65, 64 + Len(context)) = context
  /\ context[Len(context)] = 0
  /\ SubSeq(out, 65 + Len(context), Len(out)) = hash

\* C22: for each of the three labels a successful
\* tls13_get_cert_verify_signature_input returns 64 bytes 0x20, the
\* label's context string with its terminating zero byte and the transcript
\* hash, and nothing else, so that the output depends on the label and the
\* hash only; the other two labels give a different output for the same
\* hash; with any other label the function fails; a failing call has no
\* output.
C22_SignatureInput ==
  SignatureInputCall =>
    /\ op_call.cert_verify_context \notin DefinedContexts => ~op_call.ok
    /\ ~op_call.ok => op_call.out = <<>>
    /\ op_call.ok =>
         /\ InputLaidOut(op_call.out,
                         ContextStringOf(op_call.cert_verify_context),
                         hs.transcript_hash)
         /\ \A other \in DefinedContexts \ {op_call.cert_verify_context} :
              tls13_get_cert_verify_signature_input(hs, other, "ok").out
                # op_call.out

\* The input for the channel-id label was built: 64 + 20 bytes and the hash.
C22_Witness ==
  /\ SignatureInputCall
  /\ op_call.cert_verify_context = ssl_cert_verify_channel_id
  /\ op_call.ok
  /\ Len(op_call.out) = 84 + Len(hs.transcript_hash)

(***************************************************************************)
(* Properties of the CertificateVerify labels across roles (SpecSend).     *)
(***************************************************************************)
\* tls13_add_certificate_verify has queued a CertificateVerify message.
VerifySent ==
  /\ op_call.op = "tls13_add_certificate_verify"
  /\ op_call.ret = "ssl_private_key_success"

\* The label of the role itself.
OwnLabel(is_server) ==
  IF is_server THEN ssl_cert_verify_server ELSE ssl_cert_verify_client

\* The CertificateVerify message signed with the local key over the input
\* that `label` gives for the current transcript hash.
SignedWith(signature_algorithm, label) ==
  CertificateVerifyMsg(signature_algorithm,
    Signature(hs.local_pubkey[1], signature_algorithm,
              tls13_get_cert_verify_signature_input(hs, label, "ok").out))

\* What tls13_process_certificate_verify returns for `msg` on an endpoint
\* of the given role that has the same transcript hash and holds the local
\* key as its peer's key.
VerifiedBy(is_server, msg) ==
  tls13_process_certificate_verify(
    [hs EXCEPT !.peer_pubkey = hs.local_pubkey], NewSession, is_server,
    msg, "ok").ret

SentAlgorithm == op_call.msgs[1].body[1] * 256 + op_call.msgs[1].body[2]

\* C23: the message tls13_add_certificate_verify queues on an endpoint of
\* role R is signed over the input of R's own label; the endpoint of the
\* opposite role, on the same transcript hash, accepts it, and accepts a
\* message signed over the input of a label exactly if the label is R's
\* own; an endpoint of role R itself rejects the message it would sign;
\* a message signed over the channel-id input is neither sent nor accepted.
C23_LabelsPairUp ==
  VerifySent =>
    /\ op_call.msgs[1].body = SignedWith(SentAlgorithm, OwnLabel(server))
    /\ \A label \in DefinedContexts :
         /\ VerifiedBy(~server, SignedWith(SentAlgorithm, label)) = 1
              <=> label = OwnLabel(server)
         /\ VerifiedBy(server, SignedWith(SentAlgorithm, label)) = 1
              <=> label = OwnLabel(~server)
    /\ VerifiedBy(~server, op_call.msgs[1].body) = 1
    /\ VerifiedBy(server, op_call.msgs[1].body) = 0
    /\ op_call.msgs[1].body
         # SignedWith(SentAlgorithm, ssl_cert_verify_channel_id)

\* A client has signed its CertificateVerify; a server on the same
\* transcript accepts it.
C23_Witness ==
  /\ VerifySent
  /\ ~server
  /\ op_call.msgs[1].body = SignedWith(SentAlgorithm, ssl_cert_verify_client)
  /\ VerifiedBy(TRUE, op_call.msgs[1].body) = 1

(***************************************************************************)
(* Properties of the order of Certificate and CertificateVerify (SpecRecv).*)
(***************************************************************************)
CertificateVerifyCall == op_call.op = "tls13_process_certificate_verify"

\* tls13_process_certificate_verify returned before it looked at the
\* message: no alert of the parser, of the policy check or of the
\* verification, and no peer signature algorithm on the session.
FailedBeforeParsing ==
  /\ op_call.ret = 0
  /\ op_call.alerts = <<>>
  /\ new_session.peer_signature_algorithm = NewSession.peer_signature_algorithm

\* CertificateVerify is handled as stated whether or not a key is held.
VerifyNeedsKey ==
  CertificateVerifyCall =>
    /\ op_call.ret = 1 => ~IsNull(hs.peer_pubkey)
    /\ IsNull(hs.peer_pubkey) => FailedBeforeParsing

\* A peer public key is held only after a tls13_process_certificate call
\* that succeeded with at least one certificate.
KeyOnlyAfterAcceptedCertificate ==
  /\ recv_phase = 0 => IsNull(hs.peer_pubkey)
  /\ (CertificateCall /\ ~IsNull(hs.peer_pubkey)) =>
       (op_call.ret = 1 /\ sk_num(new_session.certs) >= 1)

\* C24 as stated: tls13_process_certificate_verify succeeds only with a
\* peer public key, which is held only after a tls13_process_certificate
\* call that succeeded with at least one certificate; without a key it
\* fails before parsing and records no signature algorithm. The code
\* installs the key before the session-cache commit, so the key is also
\* held after a tls13_process_certificate call that failed there.
C24_Original == VerifyNeedsKey /\ KeyOnlyAfterAcceptedCertificate

(***************************************************************************)
(* Properties of the KeyUpdate exchange between two endpoints              *)
(* (SpecExchange).                                                         *)
(***************************************************************************)
\* A KeyUpdate written by the handshake logic carries not-requested.
IsAcknowledgement(m) ==
  /\ m.type = SSL3_MT_KEY_UPDATE
  /\ m.body = <<SSL_KEY_UPDATE_NOT_REQUESTED>>

\* Every KeyUpdate the logic of either endpoint has built, queued or on the
\* wire, carries not-requested.
AcknowledgementsNotRequested ==
  /\ \A i \in DOMAIN flight : IsAcknowledgement(flight[i])
  /\ \A i \in DOMAIN peer.s.flight : IsAcknowledgement(peer.s.flight[i])
  /\ \A i \in DOMAIN peer.to_peer :
       peer.to_peer[i].origin = "stack" => IsAcknowledgement(peer.to_peer[i])
  /\ \A i \in DOMAIN peer.to_local :
       peer.to_local[i].origin = "stack" => IsAcknowledgement(peer.to_local[i])

\* Each endpoint has built at most as many KeyUpdates as KeyUpdates with
\* code requested were started towards it.
AcknowledgementsBounded ==
  /\ acks_queued <= peer.req_to_local
  /\ peer.s.acks_queued <= peer.req_to_peer

\* The local endpoint, the peer, is handed a KeyUpdate that carries
\* not-requested.
LocalReceivesNotRequested ==
  /\ n_msgs' = n_msgs + 1
  /\ IsAcknowledgement(Head(peer.to_local))

PeerReceivesNotRequested ==
  /\ Len(peer'.to_peer) < Len(peer.to_peer)
  /\ IsAcknowledgement(Head(peer.to_peer))

\* Nothing is on its way any more: the wire is empty in both directions and
\* no flight is queued, except at an endpoint whose connection has failed.
Quiescent ==
  /\ ConnectionFailed \/ (peer.to_local = <<>> /\ flight = <<>>)
  /\ peer.failed \/ (peer.to_peer = <<>> /\ peer.s.flight = <<>>)

\* C25: every KeyUpdate built by tls13_receive_key_update carries
\* not-requested; an endpoint that receives a KeyUpdate with not-requested
\* rotates its read key and queues nothing; hence each endpoint builds at
\* most one KeyUpdate per KeyUpdate with code requested started towards it,
\* and the exchange comes to rest.
C25_KeyUpdatesQuiesce ==
  /\ []AcknowledgementsNotRequested
  /\ []AcknowledgementsBounded
  /\ [][LocalReceivesNotRequested =>
          /\ flight' = flight
          /\ acks_queued' = acks_queued
          /\ write_key_gen' = write_key_gen
          /\ ph_call'.ret = 1 => read_key_gen' = read_key_gen + 1]_vars
  /\ [][PeerReceivesNotRequested =>
          /\ peer'.s.flight = peer.s.flight
          /\ peer'.s.acks_queued = peer.s.acks_queued
          /\ peer'.s.write_key_gen = peer.s.write_key_gen
          /\ ~peer'.failed => peer'.s.read_key_gen = peer.s.read_key_gen + 1]_vars
  /\ <>[]Quiescent

\* One KeyUpdate with code requested was started towards the local endpoint
\* and nothing else: the local endpoint has answered with one KeyUpdate, the
\* peer has received it, rotated its read key and built nothing, and the
\* wire is empty.
C25_Witness ==
  /\ peer.initiated = 1
  /\ peer.req_to_local = 1
  /\ acks_queued = 1
  /\ write_key_gen = 1
  /\ peer.s.read_key_gen = 1
  /\ peer.s.acks_queued = 0
  /\ Quiescent
  /\ ~ConnectionFailed /\ ~peer.failed

====
